---- MODULE Spec2Model ----
(***************************************************************************)
(* Model of the grep-style search engine (src/src/search_engine.py) and of *)
(* the part of the presentation layer that drives it (src/src/main.py:     *)
(* SearchWorker, MainWindow.start_search / stop_search /                   *)
(* on_search_finished / show_preferences and the option check boxes).      *)
(*                                                                         *)
(* Text is a sequence of one-character strings ("u00E9" stands for the one *)
(* character e-acute); file content is a sequence of bytes, an ASCII byte  *)
(* being written as its character.                                         *)
(***************************************************************************)
EXTENDS Integers, Sequences, FiniteSets, TLC

VARIABLES
    eng,      \* the fields of the SearchEngine instance
    disk,     \* the environment: which paths fail, which libraries exist
    call,     \* the frame of search(), one per caller
    worker,   \* the SearchWorker threads
    gui,      \* the fields of MainWindow the searches touch
    events    \* queued deliveries of SearchWorker.finished to the main thread

vars == <<eng, disk, call, worker, gui, events>>

(***************************************************************************)
(* Characters                                                              *)
(***************************************************************************)
LowerLetters ==
    <<"a","b","c","d","e","f","g","h","i","j","k","l","m",
      "n","o","p","q","r","s","t","u","v","w","x","y","z">>

UpperLetters ==
    <<"A","B","C","D","E","F","G","H","I","J","K","L","M",
      "N","O","P","Q","R","S","T","U","V","W","X","Y","Z">>

Digits == {"0","1","2","3","4","5","6","7","8","9"}

Range(s) == {s[i] : i \in DOMAIN s}

\* the indices 1..n in order
Indices(n) == [i \in 1..n |-> i]

Letters == Range(LowerLetters) \cup Range(UpperLetters)

\* str.lower() on one character
Lower(c) ==
    IF c \in Range(UpperLetters)
    THEN LowerLetters[CHOOSE i \in DOMAIN UpperLetters : UpperLetters[i] = c]
    ELSE c

LowerStr(s) == [i \in DOMAIN s |-> Lower(s[i])]

\* the characters the regex engine treats as word characters (\w)
WordChars == Letters \cup Digits \cup {"_", "u00E9"}

\* the characters \s matches
SpaceChars == {" ", "\t", "\n", "\r", "\f"}

Max(a, b) == IF a > b THEN a ELSE b

Min(a, b) == IF a < b THEN a ELSE b

\* s[a:b] of Python (0-based, end exclusive), for 0 <= a
Slice(s, a, b) ==
    IF b <= a THEN <<>> ELSE [i \in 1..(Min(b, Len(s)) - a) |-> s[a + i]]

\* s.endswith(t)
EndsWith(s, t) ==
    /\ Len(t) <= Len(s)
    /\ \A i \in 1..Len(t) : s[Len(s) - Len(t) + i] = t[i]

\* s.startswith(t)
StartsWith(s, t) ==
    /\ Len(t) <= Len(s)
    /\ \A i \in 1..Len(t) : s[i] = t[i]

RECURSIVE Concat(_)
\* ''.join(list)
Concat(ss) == IF ss = <<>> THEN <<>> ELSE Head(ss) \o Concat(Tail(ss))

(***************************************************************************)
(* The regex engine (module re), for the fragment of the pattern language  *)
(* the model uses: literal characters, '.', '$', '|' between alternatives,  *)
(* the escapes \s \w \d \b \n, an escaped non-alphanumeric character, and  *)
(* an unterminated '(' .  A compiled pattern is a sequence of items, each a *)
(* character class, an assertion (word boundary, end of text) or the mark   *)
(* between two alternatives, with the IGNORECASE flag.                      *)
(***************************************************************************)
\* _special_chars_map of re.escape
SpecialChars ==
    {"(", ")", "[", "]", "{", "}", "?", "*", "+", "-", "|", "^", "$",
     "\\", ".", "&", "~", "#", " ", "\t", "\n", "\r", "\f"}

\* Escape that leaves the pattern as it is
Escape_Nothing(p) == p

RECURSIVE Escape(_)
\* re.escape(pattern): a backslash before every special character
Escape(p) ==
    IF p = <<>> THEN <<>>
    ELSE (IF Head(p) \in SpecialChars THEN <<"\\", Head(p)>> ELSE <<Head(p)>>)
         \o Escape(Tail(p))

NoRegex == [ok |-> FALSE, items |-> <<>>, ic |-> FALSE, pattern |-> <<>>]

Lit(c) == [kind |-> "set", neg |-> FALSE, set |-> {c}]

\* the item that stands for a pattern that does not parse
ErrItem == [kind |-> "error", neg |-> FALSE, set |-> {}]

RECURSIVE ParseItems(_)
\* the parser of re.compile: the items of a pattern, or <<ErrItem>> for re.error
ParseItems(p) ==
    IF p = <<>> THEN <<>>
    ELSE LET c == Head(p) IN
         IF c = "\\" THEN
             IF Len(p) = 1 THEN <<ErrItem>>          \* bad escape (end of pattern)
             ELSE LET d == p[2]
                      rest == ParseItems(Tail(Tail(p)))
                      item == CASE d = "s" -> [kind |-> "set", neg |-> FALSE, set |-> SpaceChars]
                                [] d = "w" -> [kind |-> "set", neg |-> FALSE, set |-> WordChars]
                                [] d = "d" -> [kind |-> "set", neg |-> FALSE, set |-> Digits]
                                [] d = "n" -> Lit("\n")
                                [] d = "b" -> [kind |-> "wb", neg |-> FALSE, set |-> {}]
                                [] OTHER -> Lit(d)
                  IN IF d \in (Letters \cup Digits) \ {"s", "w", "d", "n", "b"}
                     THEN <<ErrItem>>                \* bad escape \q
                     ELSE IF rest # <<>> /\ Head(rest).kind = "error" THEN <<ErrItem>>
                     ELSE <<item>> \o rest
         ELSE IF c = "(" THEN <<ErrItem>>            \* missing ), unterminated subpattern
         ELSE IF c = "|" THEN
             LET rest == ParseItems(Tail(p))
             IN IF rest # <<>> /\ Head(rest).kind = "error" THEN <<ErrItem>>
                ELSE <<[kind |-> "alt", neg |-> FALSE, set |-> {}]>> \o rest
         ELSE IF c = "$" THEN
             LET rest == ParseItems(Tail(p))
             IN IF rest # <<>> /\ Head(rest).kind = "error" THEN <<ErrItem>>
                ELSE <<[kind |-> "eol", neg |-> FALSE, set |-> {}]>> \o rest
         ELSE LET rest == ParseItems(Tail(p))
                  item == IF c = "."
                          THEN [kind |-> "set", neg |-> TRUE, set |-> {"\n"}]
                          ELSE Lit(c)
              IN IF rest # <<>> /\ Head(rest).kind = "error" THEN <<ErrItem>>
                 ELSE <<item>> \o rest

\* re.compile(pattern, flags); ok = FALSE stands for re.error
ReCompile(p, ignorecase) ==
    LET items == ParseItems(p)
    IN IF items # <<>> /\ Head(items).kind = "error" THEN NoRegex
       ELSE [ok |-> TRUE, items |-> items, ic |-> ignorecase, pattern |-> p]

\* does character c belong to the class of item it
CharIn(c, it, ic) ==
    LET hit == IF ic THEN Lower(c) \in {Lower(x) : x \in it.set}
                     ELSE c \in it.set
    IN hit # it.neg

\* $ at position p: the end of the text, or just before a final newline
AtEnd(text, p) ==
    \/ p = Len(text)
    \/ p = Len(text) - 1 /\ text[Len(text)] = "\n"

\* \b at position p (0-based, between text[p] and text[p+1])
AtBoundary(text, p) ==
    LET before == p > 0 /\ text[p] \in WordChars
        after  == p < Len(text) /\ text[p + 1] \in WordChars
    IN before # after

RECURSIVE MatchFrom(_, _, _, _, _)
\* the end of the match of the items from k to the end of their alternative
\* that starts at position p, or -1
MatchFrom(items, ic, k, text, p) ==
    IF k > Len(items) \/ items[k].kind = "alt" THEN p
    ELSE IF items[k].kind = "wb"
         THEN IF AtBoundary(text, p) THEN MatchFrom(items, ic, k + 1, text, p) ELSE -1
         ELSE IF items[k].kind = "eol"
         THEN IF AtEnd(text, p) THEN MatchFrom(items, ic, k + 1, text, p) ELSE -1
         ELSE IF p < Len(text) /\ CharIn(text[p + 1], items[k], ic)
              THEN MatchFrom(items, ic, k + 1, text, p + 1)
              ELSE -1

\* the indices at which the alternatives of a pattern begin, in order
AltStarts(items) ==
    LET marks == SelectSeq(Indices(Len(items)), LAMBDA k : items[k].kind = "alt")
    IN <<1>> \o [j \in DOMAIN marks |-> marks[j] + 1]

\* the first of the ends that is a match (not -1) and, with advance, is
\* beyond q; -1 when there is none
FirstEnd(ends, q, advance) ==
    LET good == {j \in DOMAIN ends : ends[j] # -1 /\ (advance => ends[j] > q)}
    IN IF good = {} THEN -1
       ELSE ends[CHOOSE j \in good : \A i \in good : j <= i]

\* the end of the match at position q, or -1: the first alternative that
\* matches there; with advance an empty match is not accepted
MatchAt(items, ic, text, q, advance) ==
    FirstEnd([j \in DOMAIN AltStarts(items) |->
                 MatchFrom(items, ic, AltStarts(items)[j], text, q)], q, advance)

\* the matches at the positions >= p of text; with advance an empty match
\* at p itself does not count
MatchStarts(rx, text, p, advance) ==
    {m \in {[start |-> q,
             end |-> MatchAt(rx.items, rx.ic, text, q, advance /\ q = p)] :
                q \in p..Len(text)} : m.end # -1}

\* the leftmost of a non-empty set of matches
Leftmost(hits) == CHOOSE m \in hits : \A n \in hits : m.start <= n.start

RECURSIVE FindFrom(_, _, _, _)
\* the match m of a scan, then the scan from its end, where after an empty
\* match the next match must advance
FindNext(rx, text, m) == <<m>> \o FindFrom(rx, text, m.end, m.end = m.start)

\* the leftmost of the matches a scan found and the scan after it
FindFirst(rx, text, hits) ==
    IF hits = {} THEN <<>> ELSE FindNext(rx, text, Leftmost(hits))

\* the scan of finditer from position p
FindFrom(rx, text, p, advance) ==
    FindFirst(rx, text, MatchStarts(rx, text, p, advance))

\* regex.finditer(text): the matches left to right, without overlap
FindIter(rx, text) == FindFrom(rx, text, 0, FALSE)

\* re.search(pattern, text) is not None
ReSearch(p, text) ==
    LET rx == ReCompile(p, FALSE)
    IN rx.ok /\ \E q \in 0..Len(text) : MatchAt(rx.items, FALSE, text, q, FALSE) # -1

(***************************************************************************)
(* The file tree the searches run on.  A node is named by a short string;  *)
(* its path is built from the names of its ancestors as os.path.join does. *)
(*     r/ a.txt  b.zip  c.png  e.db  .git/ g.txt   s/ h.txt  k.bin  p.dat  *)
(*        w.so/ o/ q.txt                                                   *)
(*     t/ n.txt                                                            *)
(*     x/ y.dat                                                            *)
(*     //h/ u.txt      (a network share)                                   *)
(***************************************************************************)
Nodes == {"r", "a.txt", "b.zip", "c.png", "e.db", ".git", "g.txt",
          "s", "h.txt", "k.bin", "p.dat", "t", "n.txt", "net", "u.txt",
          "w.so", "o", "q.txt", "x", "y.dat"}

Dirs == {"r", ".git", "s", "t", "net", "w.so", "o", "x"}

\* the directories that are not inside another one
TopNodes == {"r", "t", "net", "x"}

Name(n) ==
    CASE n = "r"     -> <<"r">>
      [] n = "a.txt" -> <<"a",".","t","x","t">>
      [] n = "b.zip" -> <<"b",".","z","i","p">>
      [] n = "c.png" -> <<"c",".","p","n","g">>
      [] n = "e.db"  -> <<"e",".","d","b">>
      [] n = ".git"  -> <<".","g","i","t">>
      [] n = "g.txt" -> <<"g",".","t","x","t">>
      [] n = "s"     -> <<"s">>
      [] n = "h.txt" -> <<"h",".","t","x","t">>
      [] n = "k.bin" -> <<"k",".","b","i","n">>
      [] n = "p.dat" -> <<"p",".","d","a","t">>
      [] n = "t"     -> <<"t">>
      [] n = "n.txt" -> <<"n",".","t","x","t">>
      [] n = "net"   -> <<"/","/","h">>
      [] n = "u.txt" -> <<"u",".","t","x","t">>
      [] n = "w.so"  -> <<"w",".","s","o">>
      [] n = "o"     -> <<"o">>
      [] n = "q.txt" -> <<"q",".","t","x","t">>
      [] n = "x"     -> <<"x">>
      [] n = "y.dat" -> <<"y",".","d","a","t">>

\* the entries of a directory in the order scandir returns them
Children(n) ==
    CASE n = "r"    -> <<"a.txt", "b.zip", "c.png", "e.db", ".git", "s", "w.so">>
      [] n = ".git" -> <<"g.txt">>
      [] n = "s"    -> <<"h.txt", "k.bin", "p.dat">>
      [] n = "t"    -> <<"n.txt">>
      [] n = "net"  -> <<"u.txt">>
      [] n = "w.so" -> <<"o">>
      [] n = "o"    -> <<"q.txt">>
      [] n = "x"    -> <<"y.dat">>
      [] OTHER      -> <<>>

Parent(n) ==
    IF n \in TopNodes THEN n
    ELSE CHOOSE d \in Dirs : n \in Range(Children(d))

\* the number of filler bytes at the head of the big file
BigPad == 80

\* the number of filler bytes after the text at the head of y.dat
TailPad == 20

\* the bytes of a file; "xFF" is a byte no UTF-8 text contains, "xC3" "xA9"
\* is the two-byte encoding of one character
Bytes(n) ==
    CASE n = "a.txt" -> <<"a","b","\n","x","a","b"," ","A","b",".","\n">>
      [] n = "b.zip" -> <<"P","K","a","b">>
      [] n = "c.png" -> <<"xFF","a","b">>
      [] n = "e.db"  -> <<"S","Q","L","a","b">>
      [] n = "g.txt" -> <<"a","b","\n">>
      [] n = "h.txt" -> <<"b","\r","\n","xC3","xA9","a","b">>
      [] n = "k.bin" -> <<"a","b","\n">>
      [] n = "p.dat" -> [i \in 1..BigPad |-> "z"] \o <<"a","b">>
      [] n = "n.txt" -> <<"a","b","\n",
                          "b",".","x"," ","a","a","b","\n",
                          "A","b"," ","a","b","\n",
                          "a","a","a","\n",
                          "x","a","b">>
      [] n = "u.txt" -> <<"a","b","\n">>
      [] n = "q.txt" -> <<"a","b","\n">>
      [] n = "y.dat" -> <<"a","b">> \o [i \in 1..TailPad |-> "z"]
      [] OTHER       -> <<>>

\* a per-file size ceiling smaller than some files of the tree
SmallFileCeiling == 12

\* the length of the longest member name of the zip container
LongNameLen == 200

\* the members of a zip container, in namelist() order, each with its
\* uncompressed content: a small text, a directory entry, a text larger than
\* the small ceiling, a compiled file, and an empty file with a long name
Members(n) ==
    IF n = "b.zip"
    THEN << [name |-> <<"m",".","t","x","t">>, bytes |-> <<"A","b","\n">>],
            [name |-> <<"d","/">>,             bytes |-> <<>>],
            [name |-> <<"l",".","t","x","t">>,
             bytes |-> <<"a","b"," ">> \o [i \in 1..SmallFileCeiling |-> "z"]],
            [name |-> <<"o",".","p","y","c">>, bytes |-> <<"a","b","\n">>],
            [name |-> [i \in 1..LongNameLen |-> "n"], bytes |-> <<>>] >>
    ELSE <<>>

RECURSIVE DecStr(_)
\* str(v) of a natural number
DecStr(v) ==
    LET digit == <<"0","1","2","3","4","5","6","7","8","9">>[(v % 10) + 1]
    IN IF v < 10 THEN <<digit>> ELSE Append(DecStr(v \div 10), digit)

\* f"{size / 1024:.1f} KB": tenths of a KB, a tie rounded to the even digit
KBStr(size) ==
    LET q == (size * 10) \div 1024
        r == (size * 10) % 1024
        tenths == IF r > 512 \/ (r = 512 /\ q % 2 = 1) THEN q + 1 ELSE q
    IN DecStr(tenths \div 10) \o <<".">> \o DecStr(tenths % 10) \o <<" ","K","B">>

RECURSIVE JoinComma(_)
\* ', '.join(names)
JoinComma(names) ==
    IF names = <<>> THEN <<>>
    ELSE IF Len(names) = 1 THEN names[1]
    ELSE names[1] \o <<",", " ">> \o JoinComma(Tail(names))

\* the '.zip' branch of _extract_file_metadata
ZipPairs(n) ==
    LET names == [k \in DOMAIN Members(n) |-> Members(n)[k].name]
        shown == JoinComma(SubSeq(names, 1, IF Len(names) < 10 THEN Len(names) ELSE 10))
    IN << [k |-> <<"F","i","l","e","s">>, v |-> DecStr(Len(names))],
          [k |-> <<"C","o","m","p","r","e","s","s","e","d"," ","S","i","z","e">>,
           v |-> KBStr(Len(Bytes(n)))],
          [k |-> <<"C","o","n","t","e","n","t","s">>,
           v |-> IF Len(names) > 10
                 THEN shown \o <<" ",".",".","."," ","a","n","d"," ">>
                            \o DecStr(Len(names) - 10) \o <<" ","m","o","r","e">>
                 ELSE shown] >>

\* the key/value pairs the metadata reader of the file's type assigns, in
\* assignment order, when it runs to completion
MetaPairs(n) ==
    CASE n = "c.png" ->
           << [k |-> <<"F","o","r","m","a","t">>, v |-> <<"P","N","G">>],
              [k |-> <<"M","o","d","e">>,         v |-> <<"R","G","B">>],
              [k |-> <<"S","i","z","e">>,         v |-> <<"1","x","1">>],
              [k |-> <<"P","N","G","_","a","b">>, v |-> <<"b",".">>] >>
      [] n = "b.zip" -> ZipPairs(n)
      [] n = "e.db" ->
           << [k |-> <<"T","a","b","l","e","s">>, v |-> <<"a","b">>],
              [k |-> <<"T","a","b","l","e"," ","C","o","u","n","t">>, v |-> <<"1">>],
              [k |-> <<"T","a","b","l","e","_","a","b","_","C","o","l","u","m","n","s">>,
               v |-> <<"x">>],
              [k |-> <<"T","a","b","l","e","_","a","b","_","R","o","w","s">>,
               v |-> <<"0">>] >>
      [] OTHER -> <<>>

\* the number of pairs already assigned when the reader of a corrupt file
\* raises: sqlite3 raises in the PRAGMA of the first table, after 'Tables'
\* and 'Table Count'; ZipFile and Image.open raise before any assignment
PairsBeforeError(n) == IF n = "e.db" THEN 2 ELSE 0

\* os.path.join(root, name), and the path of a node of the tree
Join(a, b) == a \o <<"/">> \o b

RECURSIVE Path(_)
Path(n) == IF n \in TopNodes THEN Name(n) ELSE Join(Path(Parent(n)), Name(n))

\* os.path.getsize
GetSize(n) == Len(Bytes(n))

\* The environment of one run: the paths whose open or scandir raises
\* OSError, the files whose content their reader rejects, whether Pillow
\* could be imported, and the state of the network share: "up", "down"
\* (os.path.exists answers False), "slow" (it answers after the timeout),
\* "hung" (it does not answer) or "error" (the probe raises).
Environments ==
    { [unreadable |-> {},        corrupt |-> {},                 pillow |-> TRUE, net |-> "up"],
      [unreadable |-> {"a.txt"}, corrupt |-> {},                 pillow |-> TRUE, net |-> "up"],
      [unreadable |-> {"s"},     corrupt |-> {"b.zip", "c.png"}, pillow |-> TRUE, net |-> "up"],
      [unreadable |-> {},        corrupt |-> {"e.db"},           pillow |-> TRUE, net |-> "up"],
      [unreadable |-> {},        corrupt |-> {},                 pillow |-> FALSE, net |-> "up"] }

\* the environment in which nothing fails
Healthy == [unreadable |-> {}, corrupt |-> {}, pillow |-> TRUE, net |-> "up"]

(***************************************************************************)
(* Reading files                                                           *)
(***************************************************************************)
\* bytes.decode('utf-8', errors='ignore'): an ASCII byte is its character, the
\* pair C3 A9 is one character, every other byte is undecodable and dropped
Decode(b) ==
    LET pair(i) == b[i] = "xC3" /\ i < Len(b) /\ b[i + 1] = "xA9"
        kept == SelectSeq(Indices(Len(b)),
                    LAMBDA i : pair(i) \/ b[i] \notin {"xC3", "xA9", "xFF"})
    IN [k \in DOMAIN kept |-> IF pair(kept[k]) THEN "u00E9" ELSE b[kept[k]]]

\* the newline translation of a file opened in text mode: \r\n and \r -> \n
Translate(t) ==
    LET kept == SelectSeq(Indices(Len(t)),
                    LAMBDA i : ~(t[i] = "\n" /\ i > 1 /\ t[i - 1] = "\r"))
    IN [k \in DOMAIN kept |-> IF t[kept[k]] = "\r" THEN "\n" ELSE t[kept[k]]]

\* the positions of the newlines of t, in order
Newlines(t) == SelectSeq(Indices(Len(t)), LAMBDA i : t[i] = "\n")

\* the lines of t, each with its terminating newline (the last may lack it)
SplitKeep(t) ==
    LET nl   == Newlines(t)
        from(k) == IF k = 1 THEN 1 ELSE nl[k - 1] + 1
        full == [k \in DOMAIN nl |-> SubSeq(t, from(k), nl[k])]
        last == IF nl = <<>> THEN 0 ELSE nl[Len(nl)]
    IN IF last < Len(t) THEN Append(full, SubSeq(t, last + 1, Len(t))) ELSE full

\* open(path, 'r', encoding='utf-8', errors='ignore').readlines()
ReadLines(n) == SplitKeep(Translate(Decode(Bytes(n))))

\* text.split('\n'): the pieces between the newlines, one more than newlines
SplitLines(t) ==
    LET nl == Newlines(t)
        from(k) == IF k = 1 THEN 1 ELSE nl[k - 1] + 1
        to(k)   == IF k > Len(nl) THEN Len(t) ELSE nl[k] - 1
    IN [k \in 1..(Len(nl) + 1) |-> SubSeq(t, from(k), to(k))]

RECURSIVE RStrip(_)
\* line.rstrip('\n\r')
RStrip(l) ==
    IF l # <<>> /\ l[Len(l)] \in {"\n", "\r"} THEN RStrip(SubSeq(l, 1, Len(l) - 1))
    ELSE l

\* the index of the last occurrence of c in s, 0 when there is none
LastIndex(s, c) ==
    IF \E i \in DOMAIN s : s[i] = c
    THEN CHOOSE i \in DOMAIN s : s[i] = c /\ \A j \in DOMAIN s : s[j] = c => j <= i
    ELSE 0

\* os.path.splitext(path)[1]: from the last dot of the last component, unless
\* that component has only dots before it
SplitExt(path) ==
    LET sep == LastIndex(path, "/")
        dot == LastIndex(path, ".")
    IN IF dot > sep /\ \E i \in (sep + 1)..(dot - 1) : path[i] # "."
       THEN SubSeq(path, dot, Len(path))
       ELSE <<>>

(***************************************************************************)
(* SearchEngine: class constants and exclusion filter                      *)
(***************************************************************************)
IMAGE_EXTENSIONS ==
    { <<".","j","p","g">>, <<".","j","p","e","g">>, <<".","p","n","g">>,
      <<".","t","i","f","f">>, <<".","t","i","f">>, <<".","g","i","f">>,
      <<".","b","m","p">>, <<".","w","e","b","p">> }

FILE_METADATA_EXTENSIONS ==
    { <<".","p","d","f">>, <<".","d","o","c","x">>, <<".","x","l","s","x">>,
      <<".","p","p","t","x">>, <<".","o","d","t">>, <<".","o","d","s">>,
      <<".","o","d","p">>, <<".","f","d","x">>,
      <<".","f","o","u","n","t","a","i","n">>, <<".","c","e","l","t","x">>,
      <<".","z","i","p">>, <<".","e","p","u","b">>, <<".","c","s","v">>,
      <<".","j","s","o","n">>, <<".","x","m","l">>, <<".","d","b">>,
      <<".","s","q","l","i","t","e">>, <<".","s","q","l","i","t","e","3">>,
      <<".","r","t","f">>, <<".","m","p","3">>, <<".","f","l","a","c">>,
      <<".","m","4","a">>, <<".","m","p","4">>, <<".","a","v","i">>,
      <<".","m","k","v">>, <<".","m","o","v">>, <<".","w","m","v">>,
      <<".","o","g","g">>, <<".","w","m","a">> }

ARCHIVE_EXTENSIONS == { <<".","z","i","p">>, <<".","e","p","u","b">> }

\* the exclude_patterns list __init__ builds
DefaultExcludePatterns ==
    << <<"\\",".","g","i","t">>, <<"\\",".","s","v","n">>,
       <<"_","_","p","y","c","a","c","h","e","_","_">>,
       <<"n","o","d","e","_","m","o","d","u","l","e","s">>,
       <<"\\",".","p","y","c","$">>, <<"\\",".","e","x","e","$">>,
       <<"\\",".","d","l","l","$">>, <<"\\",".","s","o","$">>,
       <<"\\",".","b","i","n","$">> >>

\* path.replace('\\', '/')
Normalise(path) == [i \in DOMAIN path |-> IF path[i] = "\\" THEN "/" ELSE path[i]]

\* SearchEngine._is_excluded
IsExcluded(e, path) ==
    \E i \in DOMAIN e.exclude_patterns :
        ReSearch(e.exclude_patterns[i], Normalise(path))

\* the extension filter of search(): no list, or the name ends with an entry
PassesExtensions(e, name) ==
    \/ e.file_extensions = <<>>
    \/ \E i \in DOMAIN e.file_extensions : EndsWith(name, e.file_extensions[i])

(***************************************************************************)
(* The content extractors.  Each returns a sequence of SearchMatch records.*)
(***************************************************************************)
SearchMatch(fp, ln, lc, ms, me, cb, ca) ==
    [file_path |-> fp, line_number |-> ln, line_content |-> lc,
     match_start |-> ms, match_end |-> me,
     context_before |-> cb, context_after |-> ca]

\* LineMatches whose window after the line is one line short
LineMatches_ShortWindow(fp, lines, i, rx, ctx) ==
    LET line      == lines[i + 1]
        found     == FindIter(rx, line)
        start_idx == Max(0, i - ctx)
        end_idx   == Min(Len(lines), i + ctx)
        before    == IF ctx > 0
                     THEN [j \in 1..(i - start_idx) |-> RStrip(lines[start_idx + j])]
                     ELSE <<>>
        after     == IF ctx > 0
                     THEN [j \in 1..(end_idx - (i + 1)) |-> RStrip(lines[i + 1 + j])]
                     ELSE <<>>
    IN [m \in DOMAIN found |->
          SearchMatch(fp, i + 1, RStrip(line), found[m].start, found[m].end,
                      before, after)]

\* the matches of line i (0-based) of lines: the body of the line loop
LineMatches(fp, lines, i, rx, ctx) ==
    LET line      == lines[i + 1]
        found     == FindIter(rx, line)
        start_idx == Max(0, i - ctx)
        end_idx   == Min(Len(lines), i + ctx + 1)
        before    == IF ctx > 0
                     THEN [j \in 1..(i - start_idx) |-> RStrip(lines[start_idx + j])]
                     ELSE <<>>
        after     == IF ctx > 0
                     THEN [j \in 1..(end_idx - (i + 1)) |-> RStrip(lines[i + 1 + j])]
                     ELSE <<>>
    IN [m \in DOMAIN found |->
          SearchMatch(fp, i + 1, RStrip(line), found[m].start, found[m].end,
                      before, after)]

RECURSIVE TextMatches(_, _, _, _, _)
\* for i, line in enumerate(lines): for match in regex.finditer(line): ...
TextMatches(fp, lines, i, rx, ctx) ==
    IF i >= Len(lines) THEN <<>>
    ELSE LineMatches(fp, lines, i, rx, ctx) \o TextMatches(fp, lines, i + 1, rx, ctx)

\* the plain-text branch of _search_file
SearchPlainText(e, env, n, rx) ==
    IF n \in env.unreadable THEN <<>>                \* open raises OSError
    ELSE TextMatches(Path(n), ReadLines(n), 0, rx, e.context_lines)

\* the line 'Key: Value' of a pair of the metadata map
MetaLine(pair) == pair.k \o <<":", " ">> \o pair.v

\* MetaMatches with a line number that counts only the pairs that matched
MetaMatches_CountMatching(fp, pairs, k, rx) ==
    LET hit == SelectSeq(Indices(Len(pairs)),
                         LAMBDA j : FindIter(rx, MetaLine(pairs[j])) # <<>>)
    IN Concat([i \in DOMAIN hit |->
                 [m \in DOMAIN FindIter(rx, MetaLine(pairs[hit[i]])) |->
                     SearchMatch(fp, i, MetaLine(pairs[hit[i]]),
                                 FindIter(rx, MetaLine(pairs[hit[i]]))[m].start,
                                 FindIter(rx, MetaLine(pairs[hit[i]]))[m].end,
                                 <<>>, <<>>)]])

RECURSIVE MetaMatches(_, _, _, _)
\* the loop over metadata.items(): pair k is the line 'Key: Value', number k
MetaMatches(fp, pairs, k, rx) ==
    IF k > Len(pairs) THEN <<>>
    ELSE LET line_text == MetaLine(pairs[k])
             found     == FindIter(rx, line_text)
         IN [m \in DOMAIN found |->
               SearchMatch(fp, k, line_text, found[m].start, found[m].end,
                           <<>>, <<>>)]
            \o MetaMatches(fp, pairs, k + 1, rx)

\* SearchEngine._search_image_metadata
SearchImageMetadata(e, env, n, rx) ==
    IF ~env.pillow THEN <<>>
    ELSE IF n \in env.unreadable \cup env.corrupt THEN <<>>   \* Image.open raises
    ELSE MetaMatches(Path(n), MetaPairs(n), 1, rx)

\* SearchEngine._extract_file_metadata: an exception ends the extraction and
\* the map built so far is returned
ExtractFileMetadata(env, n) ==
    IF n \in env.unreadable THEN <<>>
    ELSE IF n \in env.corrupt THEN SubSeq(MetaPairs(n), 1, PairsBeforeError(n))
    ELSE MetaPairs(n)

\* SearchEngine._search_file_metadata
SearchFileMetadata(e, env, n, rx) ==
    MetaMatches(Path(n), ExtractFileMetadata(env, n), 1, rx)

RECURSIVE ArchiveMatches_NoSizeCheck(_, _, _, _, _)
\* ArchiveMatches without the test of the member's size
ArchiveMatches_NoSizeCheck(e, fp, members, k, rx) ==
    IF k > Len(members) THEN <<>>
    ELSE LET member == members[k]
             rest   == ArchiveMatches_NoSizeCheck(e, fp, members, k + 1, rx)
         IN IF EndsWith(member.name, <<"/">>) THEN rest
            ELSE TextMatches(fp \o <<"/">> \o member.name,
                             SplitLines(Decode(member.bytes)), 0, rx,
                             e.context_lines) \o rest

RECURSIVE ArchiveMatches(_, _, _, _, _)
\* the loop of _search_archive over zf.namelist()
ArchiveMatches(e, fp, members, k, rx) ==
    IF k > Len(members) THEN <<>>
    ELSE LET member == members[k]
             rest   == ArchiveMatches(e, fp, members, k + 1, rx)
         IN IF EndsWith(member.name, <<"/">>) THEN rest
            ELSE IF Len(member.bytes) > e.max_search_file_size THEN rest
            ELSE TextMatches(fp \o <<"/">> \o member.name,
                             SplitLines(Decode(member.bytes)), 0, rx,
                             e.context_lines) \o rest

\* SearchEngine._search_archive
SearchArchive(e, env, n, rx) ==
    IF n \in env.unreadable \cup env.corrupt THEN <<>>        \* ZipFile raises
    ELSE ArchiveMatches(e, Path(n), Members(n), 1, rx)

\* the value of a byte
ByteCode(b) ==
    CASE b = "a" -> 97  [] b = "b" -> 98  [] b = "x" -> 120 [] b = "z" -> 122
      [] b = "A" -> 65  [] b = "P" -> 80  [] b = "K" -> 75  [] b = "S" -> 83
      [] b = "Q" -> 81  [] b = "L" -> 76  [] b = "." -> 46  [] b = " " -> 32
      [] b = "\n" -> 10 [] b = "\r" -> 13 [] b = "xFF" -> 255
      [] b = "xC3" -> 195 [] b = "xA9" -> 169

HexDigits == <<"0","1","2","3","4","5","6","7","8","9","a","b","c","d","e","f">>

RECURSIVE HexOf(_, _)
\* format(v, '0<width>x')
HexOf(v, width) ==
    IF width <= 1 /\ v < 16 THEN <<HexDigits[v + 1]>>
    ELSE HexOf(v \div 16, width - 1) \o <<HexDigits[(v % 16) + 1]>>

RECURSIVE HexDump(_)
\* bytes.hex(' ')
HexDump(b) ==
    IF b = <<>> THEN <<>>
    ELSE HexOf(ByteCode(Head(b)), 2)
         \o (IF Len(b) > 1 THEN <<" ">> ELSE <<>>) \o HexDump(Tail(b))

\* the width of the hex dump on each side of the match offset
HexWindow == 16

\* SearchEngine._search_binary
SearchBinary(e, env, n, rx) ==
    IF n \in env.unreadable THEN <<>>
    ELSE LET content == Bytes(n)
             found   == FindIter(rx, Decode(content))
         IN [m \in DOMAIN found |->
               LET byte_offset == found[m].start
                   start       == Max(0, byte_offset - HexWindow)
                   end         == Min(Len(content), byte_offset + HexWindow)
               IN SearchMatch(Path(n), byte_offset,
                      <<"O","f","f","s","e","t"," ">> \o HexOf(byte_offset, 8)
                          \o <<":", " ">> \o HexDump(Slice(content, start, end)),
                      found[m].start, found[m].end, <<>>, <<>>)]

\* ChosenExtractor with the file-metadata test ahead of the archive test
ChosenExtractor_MetadataFirst(e, ext) ==
    IF e.search_file_metadata /\ ext \in FILE_METADATA_EXTENSIONS THEN "file-metadata"
    ELSE IF e.search_in_archives /\ ext \in ARCHIVE_EXTENSIONS THEN "archive-text"
    ELSE IF e.search_metadata /\ ext \in IMAGE_EXTENSIONS THEN "image-metadata"
    ELSE IF e.search_metadata \/ e.search_file_metadata THEN "none"
    ELSE IF e.hex_search THEN "binary-hex"
    ELSE "plain-text"

\* ChosenExtractor without the skip of unmatched files under a metadata mode
ChosenExtractor_NoSkip(e, ext) ==
    IF e.search_in_archives /\ ext \in ARCHIVE_EXTENSIONS THEN "archive-text"
    ELSE IF e.search_metadata /\ ext \in IMAGE_EXTENSIONS THEN "image-metadata"
    ELSE IF e.search_file_metadata /\ ext \in FILE_METADATA_EXTENSIONS
         THEN "file-metadata"
    ELSE IF e.hex_search THEN "binary-hex"
    ELSE "plain-text"

\* the extractor _search_file chooses for a file of extension ext
ChosenExtractor(e, ext) ==
    IF e.search_in_archives /\ ext \in ARCHIVE_EXTENSIONS THEN "archive-text"
    ELSE IF e.search_metadata /\ ext \in IMAGE_EXTENSIONS THEN "image-metadata"
    ELSE IF e.search_file_metadata /\ ext \in FILE_METADATA_EXTENSIONS
         THEN "file-metadata"
    ELSE IF e.search_metadata \/ e.search_file_metadata THEN "none"
    ELSE IF e.hex_search THEN "binary-hex"
    ELSE "plain-text"

\* SearchEngine._search_file: the extractor that ran and what it returned
SearchFile(e, env, n, rx) ==
    IF GetSize(n) > e.max_search_file_size
    THEN [extractor |-> "none", matches |-> <<>>]
    ELSE LET x == ChosenExtractor(e, LowerStr(SplitExt(Path(n))))
         IN [extractor |-> x,
             matches |->
                CASE x = "archive-text"   -> SearchArchive(e, env, n, rx)
                  [] x = "image-metadata" -> SearchImageMetadata(e, env, n, rx)
                  [] x = "file-metadata"  -> SearchFileMetadata(e, env, n, rx)
                  [] x = "binary-hex"     -> SearchBinary(e, env, n, rx)
                  [] x = "plain-text"     -> SearchPlainText(e, env, n, rx)
                  [] OTHER                -> <<>>]

(***************************************************************************)
(* SearchEngine.search as a step machine.  A frame holds the locals of one *)
(* call: the compiled pattern, the accumulated matches and the position of *)
(* the os.walk generator.  log is a history of what the call did.          *)
(***************************************************************************)
\* the number of SearchWorker threads the window can have alive at once
MaxWorkers == 2

\* caller 0 calls search() directly; callers 1..MaxWorkers are worker threads
Callers == 0..MaxWorkers

\* the largest result ceiling the preferences are set to
MaxCeiling == 2

\* the default of max_search_file_size (50 MB)
DefaultFileCeiling == 50 * 1024 * 1024

Roots == {"r", "a.txt", "s", ".git", "k.bin"}

Patterns ==
    { <<"a","b">>, <<"b",".">>, <<"\\","s">>, <<"(">> }

ExtensionLists == { <<>>, << <<".","t","x","t">> >> }

\* SearchEngine.__init__; probes is history: how often each path was probed
\* since the cache was last cleared
InitEngine ==
    [case_sensitive |-> FALSE, use_regex |-> FALSE, whole_word |-> FALSE,
     search_metadata |-> FALSE, search_file_metadata |-> FALSE,
     search_in_archives |-> FALSE, hex_search |-> FALSE,
     context_lines |-> 2, file_extensions |-> <<>>, max_results |-> 0,
     max_search_file_size |-> DefaultFileCeiling, network_timeout |-> 5,
     network_path_cache |-> [q \in {} |-> FALSE], probes |-> [q \in {} |-> 0],
     exclude_patterns |-> DefaultExcludePatterns]

ConfigFields ==
    {"case_sensitive", "use_regex", "whole_word", "search_metadata",
     "search_file_metadata", "search_in_archives", "hex_search", "context_lines",
     "file_extensions", "max_results", "max_search_file_size"}

ConfigOf(e) == [f \in ConfigFields |-> e[f]]

\* what a caller that keeps the list of its previous call holds: the
\* arguments, the configuration and the environment of that call, and the list
NoCall ==
    [valid |-> FALSE, root |-> "r", pattern |-> <<>>, config |-> ConfigOf(InitEngine),
     exclude_patterns |-> DefaultExcludePatterns, disk |-> Healthy, matches |-> <<>>]

IdleFrame ==
    [pc |-> "idle", root |-> "r", pattern |-> <<>>, regex |-> NoRegex,
     matches |-> <<>>, stack |-> <<>>, top |-> "r", dirs |-> <<>>,
     files |-> <<>>, log |-> <<>>, prev |-> NoCall]

Event(ev, n, x, before, got) ==
    [ev |-> ev, node |-> n, x |-> x, before |-> before, got |-> got]

\* SearchEngine._is_network_path
IsNetworkPath(path) ==
    StartsWith(path, <<"\\", "\\">>) \/ StartsWith(path, <<"/", "/">>)

\* CompilePattern that escapes the pattern whatever use_regex is
CompilePattern_AlwaysEscape(e, pattern) ==
    LET escaped == Escape(pattern)
        wrapped == IF e.whole_word
                   THEN <<"\\", "b">> \o escaped \o <<"\\", "b">>
                   ELSE escaped
    IN ReCompile(wrapped, ~e.case_sensitive)

\* the 'Compile regex pattern' block of search()
CompilePattern(e, pattern) ==
    IF e.use_regex
    THEN ReCompile(pattern, ~e.case_sensitive)
    ELSE LET escaped == Escape(pattern)
             wrapped == IF e.whole_word
                        THEN <<"\\", "b">> \o escaped \o <<"\\", "b">>
                        ELSE escaped
         IN ReCompile(wrapped, ~e.case_sensitive)

\* CeilingReached with > for >=
CeilingReached_Strict(e, matches) ==
    e.max_results > 0 /\ Len(matches) > e.max_results

\* CeilingReached that stops one match early
CeilingReached_OneEarly(e, matches) ==
    e.max_results > 0 /\ Len(matches) + 1 >= e.max_results

\* the ceiling test of the two loops of search()
CeilingReached(e, matches) ==
    e.max_results > 0 /\ Len(matches) >= e.max_results

\* the candidate test and dispatch of one file: the body of the file loop,
\* and of the single-file branch (name is what the extension filter sees)
FileBody(e, env, f, n, name) ==
    IF IsExcluded(e, Path(n))
    THEN [f EXCEPT !.log = Append(@, Event("excluded", n, "none", Len(f.matches), 0))]
    ELSE IF ~PassesExtensions(e, name)
    THEN [f EXCEPT !.log = Append(@, Event("filtered", n, "none", Len(f.matches), 0))]
    ELSE LET r == SearchFile(e, env, n, f.regex)
         IN [f EXCEPT !.matches = @ \o r.matches,
                      !.log = Append(@, Event("dispatch", n, r.extractor,
                                              Len(f.matches), Len(r.matches)))]

\* CachedAnswer of an engine that never finds a path in its cache
CachedAnswer_NeverHit(e, path) == [hit |-> FALSE, value |-> FALSE]

\* the 'Check cache first' of _check_network_path_accessible
CachedAnswer(e, path) ==
    IF path \in DOMAIN e.network_path_cache
    THEN [hit |-> TRUE, value |-> e.network_path_cache[path]]
    ELSE [hit |-> FALSE, value |-> FALSE]

\* ProbeAnswer that takes a share that answers late for reachable
ProbeAnswer_SlowIsUp(net) == net \in {"up", "slow"}

\* what the probe of _check_network_path_accessible yields: os.path.exists
\* in time, or False after a timeout or an exception
ProbeAnswer(net) == net = "up"

\* search() after the network check: the compile block and the choice
\* between file and directory root
AfterNetworkCheck(e, env, f0) ==
    LET rx == CompilePattern(e, f0.pattern)
    IN IF ~rx.ok THEN [f0 EXCEPT !.pc = "done"]
       ELSE IF f0.root \notin Dirs
            THEN [FileBody(e, env, [f0 EXCEPT !.regex = rx], f0.root, Path(f0.root))
                     EXCEPT !.pc = "done"]
            ELSE [f0 EXCEPT !.regex = rx, !.pc = "walk", !.stack = <<f0.root>>]

\* FreshMatches of an engine that goes on with the list of the call before
FreshMatches_Kept(f) == f.prev.matches

\* matches = []
FreshMatches(f) == <<>>

\* search(): from the entry to the choice between file and directory root,
\* or to the submission of the probe of a network path that is not cached
SearchBegin(c, root, pattern) ==
    /\ call[c].pc = "idle"
    /\ LET f0 == [IdleFrame EXCEPT !.root = root, !.pattern = pattern,
                                   !.matches = FreshMatches(call[c]),
                                   !.prev = call[c].prev]
           a  == CachedAnswer(eng, Path(root))
           f1 == [f0 EXCEPT !.log = <<Event("cached", root, "none", 0,
                                            IF a.value THEN 1 ELSE 0)>>]
       IN call' = [call EXCEPT ![c] =
            IF pattern = <<>> THEN [f0 EXCEPT !.pc = "done"]
            ELSE IF ~IsNetworkPath(Path(root)) THEN AfterNetworkCheck(eng, disk, f0)
            ELSE IF ~a.hit THEN [f0 EXCEPT !.pc = "probe"]
            ELSE IF ~a.value THEN [f1 EXCEPT !.pc = "done"]
            ELSE AfterNetworkCheck(eng, disk, f1)]
    /\ UNCHANGED <<eng, disk, worker, gui, events>>

\* the share does not answer within network_timeout
TimedOut(net) == net \in {"slow", "hung"}

\* future.result(timeout) returns or raises.  With an answer in time the
\* answer is cached and search() returns or goes on; after a timeout the
\* call is at the exit of the executor block, which waits for the probe
\* thread (shutdown(wait=True)).
ProbeEnd(c) ==
    /\ call[c].pc = "probe"
    /\ LET f          == call[c]
           path       == Path(f.root)
           accessible == ProbeAnswer(disk.net)
           f1 == [f EXCEPT !.log = <<Event("probe", f.root, disk.net, 0,
                                           IF accessible THEN 1 ELSE 0)>>]
           counted == [eng EXCEPT
                     !.probes = (path :> (IF path \in DOMAIN @ THEN @[path] + 1 ELSE 1)) @@ @]
           e1 == [counted EXCEPT !.network_path_cache = (path :> accessible) @@ @]
       IN IF ~accessible /\ TimedOut(disk.net)
          THEN /\ eng' = counted
               /\ call' = [call EXCEPT ![c] = [f1 EXCEPT !.pc = "shutdown"]]
          ELSE /\ eng' = e1
               /\ call' = [call EXCEPT ![c] =
                     IF accessible THEN AfterNetworkCheck(e1, disk, f1)
                     ELSE [f1 EXCEPT !.pc = "done"]]
    /\ UNCHANGED <<disk, worker, gui, events>>

\* os.path.exists has returned in the probe thread: the executor block is
\* left, the TimeoutError reaches the except clause, False is cached and
\* search() returns the empty list
ShutdownEnd(c) ==
    /\ call[c].pc = "shutdown"
    /\ disk.net # "hung"
    /\ eng' = [eng EXCEPT !.network_path_cache = (Path(call[c].root) :> FALSE) @@ @]
    /\ call' = [call EXCEPT ![c] = [@ EXCEPT !.pc = "done"]]
    /\ UNCHANGED <<disk, worker, gui, events>>

RECURSIVE SkipUnlistable(_, _)
\* os.walk: a directory whose scandir raises is dropped without a yield
SkipUnlistable(env, stack) ==
    IF stack = <<>> THEN <<>>
    ELSE IF Head(stack) \in env.unreadable THEN SkipUnlistable(env, Tail(stack))
    ELSE stack

\* KeptDirs that prunes nothing
KeptDirs_All(e, top, dirs) == dirs

\* dirs[:] = [d for d in dirs if not self._is_excluded(os.path.join(root, d))]
KeptDirs(e, top, dirs) ==
    SelectSeq(dirs, LAMBDA d : ~IsExcluded(e, Join(Path(top), Name(d))))

\* next() of the os.walk generator and the head of the directory loop: the
\* ceiling test and the pruning of the excluded subdirectories
WalkNext(c) ==
    /\ call[c].pc = "walk"
    /\ LET f     == call[c]
           tried == f.stack
           st    == SkipUnlistable(disk, f.stack)
           fails == [i \in 1..(Len(tried) - Len(st)) |->
                        Event("scandir-failed", tried[i], "none", Len(f.matches), 0)]
       IN IF st = <<>>
          THEN call' = [call EXCEPT ![c] = [f EXCEPT !.pc = "done", !.stack = <<>>,
                                                    !.log = @ \o fails]]
          ELSE LET top   == Head(st)
                   kids  == Children(top)
                   dirs  == SelectSeq(kids, LAMBDA k : k \in Dirs)
                   files == SelectSeq(kids, LAMBDA k : k \notin Dirs)
                   listed == f.log \o fails
                               \o <<Event("scandir", top, "none", Len(f.matches), 0)>>
               IN IF CeilingReached(eng, f.matches)
                  THEN call' = [call EXCEPT ![c] =
                           [f EXCEPT !.pc = "done", !.stack = Tail(st), !.top = top,
                                     !.log = listed]]
                  ELSE call' = [call EXCEPT ![c] =
                           [f EXCEPT !.pc = "files", !.stack = Tail(st), !.top = top,
                                     !.dirs = KeptDirs(eng, top, dirs),
                                     !.files = files,
                                     !.log = Append(listed,
                                         Event("visit", top, "none", Len(f.matches), 0))]]
    /\ UNCHANGED <<eng, disk, worker, gui, events>>

\* one iteration of 'for file in files': the ceiling test, then the body
FileStep(c) ==
    /\ call[c].pc = "files"
    /\ call[c].files # <<>>
    /\ LET f == call[c]
           n == Head(f.files)
       IN call' = [call EXCEPT ![c] =
            IF CeilingReached(eng, f.matches)
            THEN [f EXCEPT !.pc = "walk", !.files = <<>>, !.stack = f.dirs \o @,
                           !.log = Append(@, Event("break", n, "none", Len(f.matches), 0))]
            ELSE [FileBody(eng, disk, f, n, Name(n)) EXCEPT !.files = Tail(f.files)]]
    /\ UNCHANGED <<eng, disk, worker, gui, events>>

\* the file loop is exhausted: the generator goes on with the kept
\* subdirectories, first one first
FilesEnd(c) ==
    /\ call[c].pc = "files"
    /\ call[c].files = <<>>
    /\ call' = [call EXCEPT ![c] = [@ EXCEPT !.pc = "walk", !.stack = call[c].dirs \o @]]
    /\ UNCHANGED <<eng, disk, worker, gui, events>>

\* 'return matches' to a direct caller, which keeps the list; the frame dies
SearchReturn ==
    /\ call[0].pc = "done"
    /\ call' = [call EXCEPT ![0] = IdleFrame]
    /\ UNCHANGED <<eng, disk, worker, gui, events>>

(***************************************************************************)
(* The configuration setters, as a direct caller uses them between calls   *)
(***************************************************************************)
Idle == call[0].pc = "idle"

Configure(field, value) ==
    /\ Idle
    /\ eng' = [eng EXCEPT ![field] = value]
    /\ UNCHANGED <<disk, call, worker, gui, events>>

SetCaseSensitive == \E b \in BOOLEAN : Configure("case_sensitive", b)

SetRegex == \E b \in BOOLEAN : Configure("use_regex", b)

SetWholeWord == \E b \in BOOLEAN : Configure("whole_word", b)

SetSearchMetadata == \E b \in BOOLEAN : Configure("search_metadata", b)

SetSearchFileMetadata == \E b \in BOOLEAN : Configure("search_file_metadata", b)

SetSearchInArchives == \E b \in BOOLEAN : Configure("search_in_archives", b)

SetHexSearch == \E b \in BOOLEAN : Configure("hex_search", b)

SetFileExtensions == \E x \in ExtensionLists : Configure("file_extensions", x)

\* the two ceilings have no setter: the owner of the engine assigns the fields
WriteMaxResults == \E v \in 0..MaxCeiling : Configure("max_results", v)

WriteMaxSearchFileSize ==
    \E v \in {SmallFileCeiling, DefaultFileCeiling} : Configure("max_search_file_size", v)

\* no SearchWorker exists yet; a worker thread is "none" until created, "run"
\* from start() to the return of search(), "test" before the test of
\* _is_running, "emit" before finished.emit, "finished" after run().
\* at_stop is history: the number of files dispatched when stop() was called
\* during the walk of the worker's search (-1 otherwise).
InitWorker ==
    [w \in 1..MaxWorkers |->
        [pc |-> "none", is_running |-> FALSE, root |-> "r", pattern |-> <<>>,
         results |-> <<>>, at_stop |-> -1]]

\* MainWindow.__init__ and the initial state of the two buttons; main is the
\* position of the main thread; results_from (the worker whose list is in
\* current_results) and stopped (the workers stop_search was invoked for
\* while their thread was running) are history
\* the defaults of the preferences 'max_cache_size' and
\* 'max_preview_file_size_mb' (10 MB)
DefaultCacheSize == 50

DefaultPreviewCeiling == 10 * 1024 * 1024

\* file_cache is the dict of previewed files in insertion order, each entry a
\* path with the size it was read at; preview is what the preview pane shows;
\* cache_raised is history: a call of _cache_file has raised
InitGui ==
    [search_worker |-> 0, current_results |-> <<>>, results_from |-> 0,
     search_btn |-> TRUE, stop_btn |-> FALSE, main |-> "loop",
     stopped |-> {}, actions |-> 0,
     file_cache |-> <<>>, max_cache_size |-> DefaultCacheSize,
     max_file_size |-> DefaultPreviewCeiling, preview |-> "none",
     cache_raised |-> FALSE]

Init ==
    /\ eng = InitEngine
    /\ disk \in Environments
    /\ call = [c \in Callers |-> IdleFrame]
    /\ worker = InitWorker
    /\ gui = InitGui
    /\ events = <<>>

Next ==
    \/ SetRegex
    \/ SetSearchMetadata
    \/ SetSearchFileMetadata
    \/ SetSearchInArchives
    \/ SetHexSearch
    \/ SetFileExtensions
    \/ WriteMaxResults
    \/ WriteMaxSearchFileSize
    \/ \E root \in Roots, pattern \in Patterns : SearchBegin(0, root, pattern)
    \/ WalkNext(0)
    \/ FileStep(0)
    \/ FilesEnd(0)
    \/ SearchReturn

Spec == Init /\ [][Next]_vars

(***************************************************************************)
(* Reference notions the properties are stated with                        *)
(***************************************************************************)
Ext(n) == LowerStr(SplitExt(Path(n)))

\* the events of a kind in the log of a frame
EventsOf(f, kind) == {i \in DOMAIN f.log : f.log[i].ev = kind}

RECURSIVE TreeFiles(_, _, _)
\* the candidate files below directory d, in walk order, when the nodes of
\* gone do not exist: files of d first, then each kept subdirectory
TreeFiles(e, gone, d) ==
    IF d \in gone THEN <<>>
    ELSE LET kids == SelectSeq(Children(d), LAMBDA k : k \notin gone)
             files == SelectSeq(kids, LAMBDA k :
                          /\ k \notin Dirs
                          /\ ~IsExcluded(e, Path(k))
                          /\ PassesExtensions(e, Name(k)))
             subs == SelectSeq(kids, LAMBDA k : k \in Dirs /\ ~IsExcluded(e, Path(k)))
         IN files \o Concat([i \in DOMAIN subs |-> TreeFiles(e, gone, subs[i])])

\* the candidate files of a search on root
CandidateFiles(e, gone, root) ==
    IF root \in Dirs THEN TreeFiles(e, gone, root)
    ELSE IF root \notin gone /\ ~IsExcluded(e, Path(root))
            /\ PassesExtensions(e, Path(root))
         THEN <<root>> ELSE <<>>

\* every match of every file of a list, in order
AllMatches(e, env, rx, files) ==
    Concat([i \in DOMAIN files |-> SearchFile(e, env, files[i], rx).matches])

RECURSIVE TakeUntilCeiling(_, _, _, _, _)
\* the matches of the files of a list taken one file at a time until the
\* ceiling is reached
TakeUntilCeiling(e, env, rx, files, acc) ==
    IF files = <<>> \/ (e.max_results > 0 /\ Len(acc) >= e.max_results) THEN acc
    ELSE TakeUntilCeiling(e, env, rx, Tail(files),
                          acc \o SearchFile(e, env, Head(files), rx).matches)

\* the files and directories of the run whose reading fails
Failing(e, env) ==
    {n \in Nodes :
        \/ n \in env.unreadable
        \/ /\ n \notin Dirs
           /\ LET x == ChosenExtractor(e, Ext(n))
              IN \/ x \in {"archive-text", "image-metadata", "file-metadata"}
                    /\ n \in env.corrupt
                 \/ x = "image-metadata" /\ ~env.pillow}

(***************************************************************************)
(* Properties of the extractor dispatcher and of the tree walker           *)
(***************************************************************************)
\* the extractor the stated priority order selects, case by case
PriorityExtractor(e, ext) ==
    LET arch == e.search_in_archives /\ ext \in ARCHIVE_EXTENSIONS
        img  == e.search_metadata /\ ext \in IMAGE_EXTENSIONS
        fmd  == e.search_file_metadata /\ ext \in FILE_METADATA_EXTENSIONS
        meta == e.search_metadata \/ e.search_file_metadata
    IN CASE arch -> "archive-text"
         [] ~arch /\ img -> "image-metadata"
         [] ~arch /\ ~img /\ fmd -> "file-metadata"
         [] ~arch /\ ~img /\ ~fmd /\ meta -> "none"
         [] ~arch /\ ~meta /\ e.hex_search -> "binary-hex"
         [] ~arch /\ ~meta /\ ~e.hex_search -> "plain-text"

\* C1: for every dispatched file and every combination of the four mode
\* flags, _search_file runs no extractor or exactly the one the priority
\* order selects (archive-text, image-metadata, file-metadata, none under a
\* metadata mode, binary-hex, plain-text); it runs that one whenever the file
\* is within the size ceiling.
C1_DispatchPriority ==
    \A i \in EventsOf(call[0], "dispatch") :
        LET ev == call[0].log[i]
            x  == PriorityExtractor(eng, Ext(ev.node))
        IN /\ ev.x \in {"none", x}
           /\ GetSize(ev.node) <= eng.max_search_file_size => ev.x = x

\* a .zip file, which is an archive type and in the metadata set, goes to the
\* archive extractor when both modes are on; a .db file goes to file metadata
C1_Witness ==
    /\ eng.search_in_archives /\ eng.search_file_metadata /\ eng.hex_search
    /\ \E i, j \in EventsOf(call[0], "dispatch") :
          /\ call[0].log[i].node = "b.zip" /\ call[0].log[i].x = "archive-text"
          /\ call[0].log[j].node = "e.db" /\ call[0].log[j].x = "file-metadata"

\* C2: while search_metadata or search_file_metadata is on, no file goes to
\* the plain-text or the binary-hex extractor, and a file whose extension is in
\* neither the image set nor the metadata set contributes no match, whatever
\* hex_search is.
C2_MetadataExclusive ==
    (eng.search_metadata \/ eng.search_file_metadata) =>
        /\ \A i \in EventsOf(call[0], "dispatch") :
              LET ev == call[0].log[i]
              IN /\ ev.x \notin {"plain-text", "binary-hex"}
                 /\ Ext(ev.node) \notin IMAGE_EXTENSIONS \cup FILE_METADATA_EXTENSIONS
                       => ev.got = 0
        /\ \A k \in DOMAIN call[0].matches :
              \A n \in Nodes \ Dirs :
                  call[0].matches[k].file_path = Path(n) =>
                      Ext(n) \in IMAGE_EXTENSIONS \cup FILE_METADATA_EXTENSIONS

\* a.txt holds the pattern, file-metadata and hex modes are on, and the file
\* was dispatched without a match
C2_Witness ==
    /\ eng.search_file_metadata /\ eng.hex_search /\ ~eng.use_regex
    /\ call[0].pattern = <<"a","b">>
    /\ \E i \in EventsOf(call[0], "dispatch") :
          call[0].log[i].node = "a.txt" /\ call[0].log[i].got = 0

C4_NeverShortOfCeiling ==
    LET f   == call[0]
        all == AllMatches(eng, disk, f.regex,
                   CandidateFiles(eng, disk.unreadable \cap Dirs, f.root))
    IN (f.pc = "done" /\ f.regex.ok) =>
          /\ eng.max_results = 0 => f.matches = all
          /\ eng.max_results > 0 => Len(f.matches) >= Min(eng.max_results, Len(all))

\* a search with ceiling 2 that needed its second file to reach it, and an
\* unlimited search that returned matches of several files
C4_Witness ==
    LET f == call[0]
    IN /\ f.pc = "done" /\ f.root = "r" /\ eng.max_results = 2
       /\ Cardinality({i \in EventsOf(f, "dispatch") : f.log[i].got > 0}) = 2
       /\ Len(f.matches) = 2

\* C5: whatever files and directories fail, search returns the list it
\* returns on the same tree without them.
C5_FailuresLikeRemoval ==
    LET f    == call[0]
        gone == Failing(eng, disk)
    IN (f.pc = "done" /\ f.regex.ok) =>
          f.matches = TakeUntilCeiling(eng, Healthy, f.regex,
                          CandidateFiles(eng, gone, f.root), <<>>)

\* C6: with regex mode on and a pattern that does not compile, the call ends
\* at once with the empty list: no directory listed, no file dispatched.
C6_BadRegexReturnsEmpty ==
    LET f == call[0]
    IN (f.pc # "idle" /\ eng.use_regex /\ f.pattern # <<>>
        /\ Head(ParseItems(f.pattern)).kind = "error") =>
          f.pc = "done" /\ f.matches = <<>> /\ f.log = <<>>

C6_Witness ==
    /\ call[0].pc = "done" /\ call[0].root = "r" /\ eng.use_regex
    /\ call[0].pattern = <<"(">>
    /\ call[0].log = <<>>

\* C10: every SearchMatch of every mode satisfies
\* 0 <= match_start <= match_end <= len(line_content).
C10_OffsetsWithinLine ==
    \A k \in DOMAIN call[0].matches :
        LET m == call[0].matches[k]
        IN 0 <= m.match_start /\ m.match_start <= m.match_end
           /\ m.match_end <= Len(m.line_content)

(***************************************************************************)
(* The presentation layer: MainWindow on the main thread, SearchWorker     *)
(* threads running search() on the shared engine, and the queued delivery  *)
(* of SearchWorker.finished to MainWindow.on_search_finished.              *)
(***************************************************************************)
\* the number of user actions (clicks, key presses, dialogs) of one run
MaxUserActions == 2

GuiRoots == {"r"}

GuiPatterns == { <<"a","b">> }

\* the check boxes wired to a setter with 'state == 2'
CheckBoxFields ==
    {"search_metadata", "search_file_metadata", "search_in_archives", "hex_search"}

\* the values of max_search_file_size_mb the dialog is accepted with
PreferenceSizesMB == {1, 50}

\* the main thread is in the event loop and the user may still act
UserCanAct == gui.main = "loop" /\ gui.actions < MaxUserActions

\* search() is executing in the thread of worker w
InSearch(w) == call[w].pc \in {"walk", "files", "done"}

\* a worker thread that has been started and has not left run()
Alive(w) == worker[w].pc \in {"run", "test", "emit"}

\* MainWindow.on_search_finished
OnSearchFinished(g, results, from) ==
    [g EXCEPT !.current_results = results, !.results_from = from,
              !.search_btn = TRUE, !.stop_btn = FALSE]

\* MainWindow.start_search, by the Search button or by Enter in the search
\* box (which stays usable while the button is disabled).  The previous
\* SearchWorker loses its last reference: if its thread is still running the
\* thread goes on, or the process dies in the QThread destructor.
StartSearch ==
    /\ UserCanAct
    /\ \E byEnter \in BOOLEAN, root \in GuiRoots, pattern \in GuiPatterns,
          x \in ExtensionLists, dies \in BOOLEAN :
        /\ byEnter \/ gui.search_btn
        /\ \E w \in 1..MaxWorkers :
            /\ worker[w].pc = "none"
            /\ \A v \in 1..(w - 1) : worker[v].pc # "none"
            /\ eng' = [eng EXCEPT !.file_extensions = x]
            /\ IF dies /\ gui.search_worker # 0 /\ Alive(gui.search_worker)
               THEN /\ gui' = [gui EXCEPT !.main = "crashed", !.actions = @ + 1]
                    /\ worker' = [v \in 1..MaxWorkers |->
                          IF Alive(v) THEN [worker[v] EXCEPT !.pc = "dead"]
                                      ELSE worker[v]]
                    /\ call' = [c \in Callers |-> IdleFrame]
               ELSE /\ ~dies
                    /\ UNCHANGED call
                    /\ worker' = [worker EXCEPT ![w] =
                          [pc |-> "run", is_running |-> TRUE, root |-> root,
                           pattern |-> pattern, results |-> <<>>, at_stop |-> -1]]
                    /\ gui' = [gui EXCEPT !.current_results = <<>>, !.results_from = 0,
                                          !.search_btn = FALSE, !.stop_btn = TRUE,
                                          !.search_worker = w, !.actions = @ + 1]
    /\ UNCHANGED <<disk, events>>

\* MainWindow.stop_search up to the wait(): SearchWorker.stop, then the main
\* thread blocks until the thread has left run()
StopSearch ==
    /\ UserCanAct
    /\ gui.stop_btn
    /\ LET w == gui.search_worker IN
       IF w = 0
       THEN /\ gui' = [OnSearchFinished(gui, <<>>, 0) EXCEPT !.actions = @ + 1]
            /\ UNCHANGED worker
       ELSE /\ worker' = [worker EXCEPT ![w].is_running = FALSE,
                             ![w].at_stop = IF call[w].pc \in {"walk", "files"}
                                            THEN Cardinality(EventsOf(call[w], "dispatch"))
                                            ELSE -1]
            /\ gui' = [gui EXCEPT !.main = "wait", !.actions = @ + 1,
                                  !.stopped = IF Alive(w) THEN @ \cup {w} ELSE @]
    /\ UNCHANGED <<eng, disk, call, events>>

\* wait() returns, and stop_search calls on_search_finished([])
StopSearchFinish ==
    /\ gui.main = "wait"
    /\ ~Alive(gui.search_worker)
    /\ gui' = [OnSearchFinished(gui, <<>>, 0) EXCEPT !.main = "loop"]
    /\ UNCHANGED <<eng, disk, call, worker, events>>

\* the event loop delivers a queued finished signal to on_search_finished
DeliverFinished ==
    /\ gui.main = "loop"
    /\ events # <<>>
    /\ gui' = OnSearchFinished(gui, Head(events).results, Head(events).from)
    /\ events' = Tail(events)
    /\ UNCHANGED <<eng, disk, call, worker>>

\* a check box changes state: its lambda calls the setter with state == 2
OptionChanged ==
    /\ UserCanAct
    /\ \E field \in CheckBoxFields :
          eng' = [eng EXCEPT ![field] = ~eng[field]]
    /\ gui' = [gui EXCEPT !.actions = @ + 1]
    /\ UNCHANGED <<disk, call, worker, events>>

\* keys[:-m]: all keys but the last m, and no key at all for m = 0
KeysBeforeLast(keys, m) ==
    IF m = 0 THEN <<>> ELSE SubSeq(keys, 1, Max(0, Len(keys) - m))

\* the trimming of the cache in show_preferences
TrimCache(cache, max_cache_size) ==
    IF Len(cache) > max_cache_size
    THEN SubSeq(cache, Len(KeysBeforeLast(cache, max_cache_size)) + 1, Len(cache))
    ELSE cache

\* the main window after show_preferences applied the cache size and the
\* preview ceiling (in MB) of an accepted dialog
PreferencesApplied(g, cache_size, preview_mb) ==
    [g EXCEPT !.max_cache_size = cache_size,
              !.max_file_size = preview_mb * 1024 * 1024,
              !.file_cache = TrimCache(@, cache_size)]

\* MainWindow.show_preferences, dialog accepted with new engine ceilings and
\* the cache size and preview ceiling left as they are
ShowPreferences ==
    /\ UserCanAct
    /\ \E mr \in 0..MaxCeiling, mb \in PreferenceSizesMB :
          eng' = [eng EXCEPT !.max_results = mr,
                             !.max_search_file_size = mb * 1024 * 1024]
    /\ gui' = [PreferencesApplied(gui, gui.max_cache_size,
                                  gui.max_file_size \div (1024 * 1024))
                  EXCEPT !.actions = @ + 1]
    /\ UNCHANGED <<disk, call, worker, events>>

\* SearchWorker.run enters search()
WorkerSearch(w) ==
    /\ worker[w].pc = "run"
    /\ SearchBegin(w, worker[w].root, worker[w].pattern)

\* search() returns to run(): results = self.search_engine.search(...)
WorkerGotResults(w) ==
    /\ worker[w].pc = "run"
    /\ call[w].pc = "done"
    /\ worker' = [worker EXCEPT ![w].results = call[w].matches, ![w].pc = "test"]
    /\ call' = [call EXCEPT ![w] = IdleFrame]
    /\ UNCHANGED <<eng, disk, gui, events>>

\* if self._is_running:
WorkerTest(w) ==
    /\ worker[w].pc = "test"
    /\ worker' = [worker EXCEPT ![w].pc = IF worker[w].is_running THEN "emit"
                                                                  ELSE "finished"]
    /\ UNCHANGED <<eng, disk, call, gui, events>>

\* self.finished.emit(results): queued, the receiver lives in the main thread
WorkerEmit(w) ==
    /\ worker[w].pc = "emit"
    /\ events' = Append(events, [from |-> w, results |-> worker[w].results])
    /\ worker' = [worker EXCEPT ![w].pc = "finished"]
    /\ UNCHANGED <<eng, disk, call, gui>>

GuiNext ==
    \/ StartSearch
    \/ StopSearch
    \/ StopSearchFinish
    \/ DeliverFinished
    \/ OptionChanged
    \/ ShowPreferences
    \/ \E w \in 1..MaxWorkers : WorkerSearch(w)
    \/ \E w \in 1..MaxWorkers : WalkNext(w)
    \/ \E w \in 1..MaxWorkers : FileStep(w)
    \/ \E w \in 1..MaxWorkers : FilesEnd(w)
    \/ \E w \in 1..MaxWorkers : WorkerGotResults(w)
    \/ \E w \in 1..MaxWorkers : WorkerTest(w)
    \/ \E w \in 1..MaxWorkers : WorkerEmit(w)

GuiSpec == Init /\ [][GuiNext]_vars

(***************************************************************************)
(* Cancellation and the sharing of the engine between the threads.         *)
(***************************************************************************)
\* C7: once stop has been requested during the walk of a worker's search, the
\* walker finishes at most the file in progress and dispatches no file after
\* it: at most one more file is dispatched than at the time of the request.
C7_StopEndsWalk ==
    \A w \in 1..MaxWorkers :
        worker[w].at_stop >= 0
            => Cardinality(EventsOf(call[w], "dispatch")) <= worker[w].at_stop + 1

\* C8: after stop_search has been invoked for a worker whose thread is
\* running, no match record of that worker's search is delivered to
\* on_search_finished and stored in current_results.
C8_NoResultsAfterStop ==
    ~ ( gui.results_from \in gui.stopped /\ gui.current_results # <<>> )

\* C9: no configuration field of the engine changes in a step taken while a
\* worker's call of search() is in progress.
C9_NoWriteDuringSearch ==
    [][ (\E w \in 1..MaxWorkers : InSearch(w)) => ConfigOf(eng') = ConfigOf(eng) ]_vars

(***************************************************************************)
(* The options of the plain-text extractor and the exclusion list, as a    *)
(* direct caller of the engine sets them.                                  *)
(***************************************************************************)
\* the largest value set_context_lines is called with
MaxContext == 3

\* the number of add_exclude_pattern calls of one run
MaxAppended == 2

OptionRoots == {"t", "a.txt"}

OptionPatterns == { <<"a","b">>, <<"b",".">>, <<"a",".","b">>, <<"a","a">> }

ExtraExcludePatterns == { <<"n","\\",".","t">>, <<"a","\\",".","t","x","t","$">> }

\* SearchEngine.set_context_lines
SetContextLines == \E v \in -1..MaxContext : Configure("context_lines", Max(0, v))

\* AppendExclude that puts the new pattern first
AppendExclude_Front(patterns, p) == <<p>> \o patterns

\* self.exclude_patterns.append(pattern)
AppendExclude(patterns, p) == Append(patterns, p)

\* SearchEngine.add_exclude_pattern, which any holder of the engine may call
\* at any time
AddExcludePattern ==
    /\ Len(eng.exclude_patterns) < Len(DefaultExcludePatterns) + MaxAppended
    /\ \E p \in ExtraExcludePatterns :
          eng' = [eng EXCEPT !.exclude_patterns = AppendExclude(@, p)]
    /\ UNCHANGED <<disk, call, worker, gui, events>>

OptionNext ==
    \/ SetCaseSensitive
    \/ SetRegex
    \/ SetWholeWord
    \/ SetContextLines
    \/ AddExcludePattern
    \/ \E root \in OptionRoots, pattern \in OptionPatterns : SearchBegin(0, root, pattern)
    \/ WalkNext(0)
    \/ FileStep(0)
    \/ FilesEnd(0)
    \/ SearchReturn

OptionSpec == Init /\ [][OptionNext]_vars

\* the lines of a text file without their terminators
RefLines(n) == [k \in DOMAIN ReadLines(n) |-> RStrip(ReadLines(n)[k])]

\* the matches a dispatch event of the log of frame f added to the list
MatchesOf(f, i) ==
    SubSeq(f.matches, f.log[i].before + 1, f.log[i].before + f.log[i].got)

\* the plain-text dispatches of the call of the direct caller
PlainDispatches == {i \in EventsOf(call[0], "dispatch") : call[0].log[i].x = "plain-text"}

\* C11: a plain-text match on line i of an n-line file with context_lines = c
\* has context_before = lines max(1, i-c) .. i-1 and context_after = lines
\* i+1 .. min(n, i+c), of lengths min(c, i-1) and min(c, n-i); both are empty
\* when c = 0.
C11_ContextWindows ==
    \A d \in PlainDispatches :
        LET lines == RefLines(call[0].log[d].node)
            n     == Len(lines)
            c     == eng.context_lines
            ms    == MatchesOf(call[0], d)
        IN \A k \in DOMAIN ms :
              LET i == ms[k].line_number
              IN /\ i \in 1..n
                 /\ ms[k].context_before = SubSeq(lines, Max(1, i - c), i - 1)
                 /\ ms[k].context_after = SubSeq(lines, i + 1, Min(n, i + c))
                 /\ Len(ms[k].context_before) = Min(c, i - 1)
                 /\ Len(ms[k].context_after) = Min(c, n - i)
                 /\ c = 0 => ms[k].context_before = <<>> /\ ms[k].context_after = <<>>

\* with c = 1, n.txt has a match on its first line (nothing before), two on
\* line 3 (one line on each side) and one on its last line (nothing after)
C11_Witness ==
    /\ eng.context_lines = 1 /\ call[0].pc = "done"
    /\ \E d \in PlainDispatches :
          /\ call[0].log[d].node = "n.txt"
          /\ LET ms == MatchesOf(call[0], d)
             IN /\ \E k \in DOMAIN ms :
                      ms[k].line_number = 1 /\ ms[k].context_before = <<>>
                      /\ Len(ms[k].context_after) = 1
                /\ \E k, j \in DOMAIN ms :
                      k # j /\ ms[k].line_number = 3 /\ ms[j].line_number = 3
                      /\ Len(ms[k].context_before) = 1 /\ Len(ms[k].context_after) = 1
                /\ \E k \in DOMAIN ms :
                      ms[k].line_number = 5 /\ ms[k].context_after = <<>>

\* the characters of pat stand at 0-based column s of line, compared with or
\* without case
EqualAt(pat, line, s, ic) ==
    /\ s + Len(pat) <= Len(line)
    /\ \A j \in 1..Len(pat) :
          IF ic THEN Lower(line[s + j]) = Lower(pat[j]) ELSE line[s + j] = pat[j]

RECURSIVE LiteralFrom(_, _, _, _)
\* the occurrences of pat in line from column p on, left to right, each
\* starting where the one before it ended or later
LiteralFrom(pat, line, p, ic) ==
    LET starts == {q \in p..Len(line) : EqualAt(pat, line, q, ic)} IN
    IF starts = {} THEN <<>>
    ELSE LET q == CHOOSE x \in starts : \A y \in starts : x <= y
         IN <<[line |-> 0, start |-> q, end |-> q + Len(pat)]>>
            \o LiteralFrom(pat, line, q + Len(pat), ic)

\* the occurrences of pat in the lines of a file, line by line
LiteralOccurrences(pat, lines, ic) ==
    Concat([k \in DOMAIN lines |->
        LET occ == LiteralFrom(pat, lines[k], 0, ic)
        IN [m \in DOMAIN occ |-> [occ[m] EXCEPT !.line = k]]])

\* where the matches of a list are: line, first column, column after the last
Places(ms) ==
    [k \in DOMAIN ms |-> [line |-> ms[k].line_number, start |-> ms[k].match_start,
                          end |-> ms[k].match_end]]

\* C12: with regex mode and whole-word off, the plain-text matches of a file
\* that can be read are exactly the occurrences of the pattern string in its lines, character
\* for character (case ignored unless case_sensitive), left to right without
\* overlap.
C12_LiteralMatches ==
    (~eng.use_regex /\ ~eng.whole_word) =>
        \A d \in PlainDispatches :
            call[0].log[d].node \notin disk.unreadable =>
            Places(MatchesOf(call[0], d))
                = LiteralOccurrences(call[0].pattern,
                                     RefLines(call[0].log[d].node), ~eng.case_sensitive)

\* the pattern 'b.' found once in n.txt, in 'b.x', and not in 'Ab ab'
C12_Witness ==
    /\ ~eng.use_regex /\ ~eng.whole_word /\ ~eng.case_sensitive
    /\ call[0].pc = "done" /\ call[0].pattern = <<"b", ".">>
    /\ \E d \in PlainDispatches :
          /\ call[0].log[d].node = "n.txt"
          /\ Places(MatchesOf(call[0], d)) = <<[line |-> 2, start |-> 0, end |-> 2]>>

\* C13: with regex mode off and whole_word on, the character before and the
\* character after every reported match, when they exist, are not word
\* characters; with regex mode on, the compiled pattern is the one whole_word
\* off gives.
C13_WholeWordOnly ==
    /\ (~eng.use_regex /\ eng.whole_word) =>
          \A d \in PlainDispatches :
              LET ms == MatchesOf(call[0], d)
              IN \A k \in DOMAIN ms :
                    LET line == ms[k].line_content
                        s    == ms[k].match_start
                        e    == ms[k].match_end
                    IN /\ s >= 1 => line[s] \notin WordChars
                       /\ e < Len(line) => line[e + 1] \notin WordChars
    /\ (eng.use_regex /\ call[0].pc # "idle" /\ call[0].regex.ok) =>
          call[0].regex = ReCompile(call[0].pattern, ~eng.case_sensitive)

\* C14: no SearchMatch of the list has a file_path that a pattern of
\* exclude_patterns matches after normalisation, whether the excluded part is
\* the root, a directory, a file name or the path of an archive member.
C14_NoExcludedPath ==
    \A k \in DOMAIN call[0].matches :
        ~IsExcluded(eng, call[0].matches[k].file_path)

\* C15: every step leaves exclude_patterns as it is or appends one pattern
\* at its end, so the list always is the nine default patterns followed by
\* the appended ones in call order, also while a search is in progress.
C15_ExcludeCumulative ==
    [][ /\ SubSeq(eng'.exclude_patterns, 1, Len(DefaultExcludePatterns))
              = DefaultExcludePatterns
        /\ \/ eng'.exclude_patterns = eng.exclude_patterns
           \/ \E p \in ExtraExcludePatterns :
                 eng'.exclude_patterns = Append(eng.exclude_patterns, p) ]_vars

\* two patterns were appended in this order, and a search of t skipped n.txt
\* because of the first
C15_Witness ==
    /\ eng.exclude_patterns
          = DefaultExcludePatterns \o << <<"n","\\",".","t">>, <<"a","\\",".","t","x","t","$">> >>
    /\ call[0].pc = "done" /\ call[0].root = "t"
    /\ \E i \in EventsOf(call[0], "excluded") : call[0].log[i].node = "n.txt"

(***************************************************************************)
(* Searches on a network share whose state changes between the calls       *)
(***************************************************************************)
NetRoots == {"net", "u.txt", "a.txt"}

NetPatterns == { <<"a","b">>, <<>> }

NetStates == {"up", "down", "slow", "hung", "error"}

\* the share comes up, goes down, gets slow, hangs or starts failing
NetworkChange ==
    /\ \E v \in NetStates \ {disk.net} : disk' = [disk EXCEPT !.net = v]
    /\ UNCHANGED <<eng, call, worker, gui, events>>

\* SearchEngine.clear_network_cache
ClearNetworkCache ==
    /\ Idle
    /\ eng' = [eng EXCEPT !.network_path_cache = [q \in {} |-> FALSE],
                          !.probes = [q \in {} |-> 0]]
    /\ UNCHANGED <<disk, call, worker, gui, events>>

NetNext ==
    \/ NetworkChange
    \/ ClearNetworkCache
    \/ \E root \in NetRoots, pattern \in NetPatterns : SearchBegin(0, root, pattern)
    \/ ProbeEnd(0)
    \/ ShutdownEnd(0)
    \/ WalkNext(0)
    \/ FileStep(0)
    \/ FilesEnd(0)
    \/ SearchReturn

NetSpec == Init /\ [][NetNext]_vars

\* the events of the log of frame f that list a directory or dispatch a file
Enumerations(f) ==
    EventsOf(f, "scandir") \cup EventsOf(f, "visit") \cup EventsOf(f, "dispatch")

\* C16: a search on a network-style root whose probe said unreachable, raised
\* or timed out (or whose cached answer is False) returns the empty list,
\* lists no directory and dispatches no file.
C16_UnreachableReturnsEmpty ==
    LET f    == call[0]
        path == Path(f.root)
    IN (f.pc \notin {"idle", "probe", "shutdown"} /\ f.pattern # <<>>
        /\ IsNetworkPath(path)) =>
          /\ path \in DOMAIN eng.network_path_cache
          /\ \A i \in EventsOf(f, "probe") :
                f.log[i].x # "up" => ~eng.network_path_cache[path]
          /\ ~eng.network_path_cache[path] =>
                f.pc = "done" /\ f.matches = <<>> /\ Enumerations(f) = {}

\* the probe of the share timed out and the search of //h ended empty
C16_Witness ==
    LET f == call[0]
    IN /\ f.pc = "done" /\ f.root = "net" /\ f.pattern = <<"a","b">>
       /\ \E i \in EventsOf(f, "probe") : f.log[i].x = "slow"
       /\ f.matches = <<>>

\* C17: a path is probed at most once between two clear_network_cache calls;
\* a cached answer, True or False, never changes before the next clear,
\* whatever the share does; and a search on a network path probes exactly
\* when the path is not in the cache.
C17_ProbeOncePerClear ==
    [][ /\ \A q \in DOMAIN eng'.probes : eng'.probes[q] <= 1
        /\ \A q \in DOMAIN eng.network_path_cache \cap DOMAIN eng'.network_path_cache :
              eng'.network_path_cache[q] = eng.network_path_cache[q]
        /\ (call[0].pc = "idle" /\ call'[0].pc # "idle" /\ call'[0].pattern # <<>>
            /\ IsNetworkPath(Path(call'[0].root)))
              => (call'[0].pc = "probe"
                    <=> Path(call'[0].root) \notin DOMAIN eng.network_path_cache) ]_vars

\* the share is up again, and a later search still got the cached False
C17_Witness ==
    LET f == call[0]
    IN /\ disk.net = "up" /\ f.pc = "done" /\ f.root = "net"
       /\ \E i \in EventsOf(f, "cached") : f.log[i].got = 0
       /\ eng.probes[Path("net")] = 1
       /\ f.matches = <<>>

(***************************************************************************)
(* Size ceiling, metadata values and byte offsets                          *)
(***************************************************************************)
\* the matches of a list that carry a given file_path
MatchesAt(ms, fp) == SelectSeq(ms, LAMBDA m : m.file_path = fp)

\* C18: a dispatched file larger than max_search_file_size runs no extractor
\* and adds no match, in every mode; of an archive that is searched, a member
\* larger than the ceiling adds no match and every other member adds the
\* matches of its text.
C18_SizeCeiling ==
    LET f == call[0] IN
    \A d \in EventsOf(f, "dispatch") :
        LET n == f.log[d].node IN
        /\ GetSize(n) > eng.max_search_file_size =>
              f.log[d].x = "none" /\ f.log[d].got = 0
        /\ (f.log[d].x = "archive-text" /\ n \notin disk.unreadable \cup disk.corrupt) =>
              \A k \in DOMAIN Members(n) :
                  LET member == Members(n)[k]
                      fp     == Path(n) \o <<"/">> \o member.name
                      got    == MatchesAt(MatchesOf(f, d), fp)
                  IN IF Len(member.bytes) > eng.max_search_file_size
                     THEN got = <<>>
                     ELSE EndsWith(member.name, <<"/">>)
                          \/ got = TextMatches(fp, SplitLines(Decode(member.bytes)), 0,
                                               f.regex, eng.context_lines)

\* under the small ceiling the archive gave the matches of m.txt and o.pyc
\* and none of l.txt, which holds the pattern, and p.dat ran no extractor
C18_Witness ==
    LET f == call[0] IN
    /\ eng.max_search_file_size = SmallFileCeiling /\ eng.search_in_archives
    /\ f.pc = "done" /\ f.root = "r" /\ f.pattern = <<"a","b">> /\ ~eng.use_regex
    /\ \E d \in EventsOf(f, "dispatch") :
          /\ f.log[d].node = "b.zip" /\ f.log[d].x = "archive-text" /\ f.log[d].got = 2
          /\ MatchesAt(MatchesOf(f, d), Path("b.zip") \o <<"/","l",".","t","x","t">>) = <<>>
    /\ \E d \in EventsOf(f, "dispatch") :
          f.log[d].node = "p.dat" /\ f.log[d].x = "none"

\* the length values of the metadata map are cut to
MaxValueLen == 200

\* C19: every value of the map _extract_file_metadata returns for a file
\* searched in file-metadata mode is at most 200 characters long.
C19_ValuesTruncated ==
    LET f == call[0] IN
    \A d \in EventsOf(f, "dispatch") :
        f.log[d].x = "file-metadata" =>
            LET pairs == ExtractFileMetadata(disk, f.log[d].node)
            IN \A k \in DOMAIN pairs : Len(pairs[k].v) <= MaxValueLen

\* for each character of the decoded text of b, in order, the 0-based index
\* in b of the first byte of its encoding
ByteOffsets(b) ==
    LET pair(i) == b[i] = "xC3" /\ i < Len(b) /\ b[i + 1] = "xA9"
        kept == SelectSeq(Indices(Len(b)),
                    LAMBDA i : pair(i) \/ b[i] \notin {"xC3", "xA9", "xFF"})
    IN [k \in DOMAIN kept |-> kept[k] - 1]

\* C20: in binary-hex mode the line_number of a match is the index, in the
\* bytes of the file, of the first byte of the matched text.
C20_OffsetIsByteIndex ==
    LET f == call[0] IN
    \A d \in EventsOf(f, "dispatch") :
        f.log[d].x = "binary-hex" =>
            LET at == ByteOffsets(Bytes(f.log[d].node))
                ms == MatchesOf(f, d)
            IN \A k \in DOMAIN ms :
                  ms[k].match_start < Len(at) =>
                      ms[k].line_number = at[ms[k].match_start + 1]

(***************************************************************************)
(* The archive extractor against the plain-text extractor                  *)
(***************************************************************************)
\* what the plain-text branch of _search_file returns for a file at fp that
\* holds the bytes b
PlainTextOfBytes(fp, b, rx, ctx) ==
    TextMatches(fp, SplitKeep(Translate(Decode(b))), 0, rx, ctx)

\* the fields of the matches of a list other than file_path
WithoutPath(ms) ==
    [k \in DOMAIN ms |->
        [line_number |-> ms[k].line_number, line_content |-> ms[k].line_content,
         match_start |-> ms[k].match_start, match_end |-> ms[k].match_end,
         context_before |-> ms[k].context_before,
         context_after |-> ms[k].context_after]]

\* the archives the call of the direct caller opened and searched
ArchiveDispatches ==
    {i \in EventsOf(call[0], "dispatch") :
        /\ call[0].log[i].x = "archive-text"
        /\ call[0].log[i].node \notin disk.unreadable \cup disk.corrupt}

\* C21: for every member of a searched archive that is read, the matches of
\* the member are, apart from file_path, the matches the plain-text extractor
\* returns for a file that holds the member's bytes.
C21_ArchiveLikePlainText ==
    \A d \in ArchiveDispatches :
        LET n == call[0].log[d].node IN
        \A k \in DOMAIN Members(n) :
            LET member == Members(n)[k]
                fp     == Path(n) \o <<"/">> \o member.name
            IN (~EndsWith(member.name, <<"/">>)
                /\ Len(member.bytes) <= eng.max_search_file_size) =>
                  WithoutPath(MatchesAt(MatchesOf(call[0], d), fp))
                    = WithoutPath(PlainTextOfBytes(fp, member.bytes, call[0].regex,
                                                   eng.context_lines))

(***************************************************************************)
(* One search at a time                                                    *)
(***************************************************************************)
\* C22: at any time at most one SearchWorker thread is executing search() on
\* the shared engine.
C22_OneSearchAtATime ==
    Cardinality({w \in 1..MaxWorkers : InSearch(w)}) <= 1

(***************************************************************************)
(* Termination of the search on a network share.  search() takes each of   *)
(* its steps when it can: the thread that runs it is scheduled.  The share *)
(* is under no obligation.  ProbeEnd is possible exactly when the call is  *)
(* at the probe, and FileStep exactly when a file is left in the file      *)
(* loop, and each leaves that position, so weak fairness of the two is     *)
(* stated on the positions.  The return of os.path.exists in the probe     *)
(* thread is taken if it is possible again and again.                      *)
(***************************************************************************)
NetLiveSpec ==
    /\ NetSpec
    /\ []<>(call[0].pc # "probe")
    /\ SF_vars(ShutdownEnd(0))
    /\ WF_vars(WalkNext(0))
    /\ []<>(~(call[0].pc = "files" /\ call[0].files # <<>>))
    /\ WF_vars(FilesEnd(0))

\* C23: once the timeout of the probe of a network root has elapsed, search
\* returns the empty list, also when os.path.exists never answers.
C23_ReturnsAfterTimeout ==
    (call[0].pc = "shutdown") ~> (call[0].pc = "done" /\ call[0].matches = <<>>)

(***************************************************************************)
(* Pruning and the candidate test of the walk                              *)
(***************************************************************************)
RECURSIVE AncestorsBelow(_, _)
\* the directories strictly between the root of the walk and node n
AncestorsBelow(n, root) ==
    IF n = root \/ n \in TopNodes \/ Parent(n) = root THEN {}
    ELSE {Parent(n)} \cup AncestorsBelow(Parent(n), root)

\* the events of the log of frame f in which a directory is listed or entered
DirEvents(f) ==
    EventsOf(f, "scandir") \cup EventsOf(f, "scandir-failed") \cup EventsOf(f, "visit")

\* the events of the log of frame f in which a file is met by the file loop
FileEvents(f) ==
    EventsOf(f, "excluded") \cup EventsOf(f, "filtered")
        \cup EventsOf(f, "dispatch") \cup EventsOf(f, "break")

\* C24: in a directory search, a directory below the root is listed only if
\* _is_excluded rejects neither it nor a directory between it and the root,
\* and no file with a rejected directory between it and the root is tested
\* against the filters or dispatched.
C24_PrunedBeforeDescent ==
    LET f == call[0] IN
    f.root \in Dirs =>
        /\ \A i \in DirEvents(f) :
              LET d == f.log[i].node
              IN d # f.root =>
                    \A a \in {d} \cup AncestorsBelow(d, f.root) : ~IsExcluded(eng, Path(a))
        /\ \A i \in FileEvents(f) :
              LET n == f.log[i].node
              IN \A a \in ({Parent(n)} \cup AncestorsBelow(n, f.root)) \ {f.root} :
                    ~IsExcluded(eng, Path(a))

\* the walk of r ended: s was entered, .git and w.so were not, and the file
\* r/w.so/o/q.txt, whose own path and directory no pattern rejects, was not met
C24_Witness ==
    LET f == call[0] IN
    /\ f.pc = "done" /\ f.root = "r" /\ eng.max_results = 0
    /\ \E i \in EventsOf(f, "visit") : f.log[i].node = "s"
    /\ ~IsExcluded(eng, Path("q.txt")) /\ ~IsExcluded(eng, Path("o"))
    /\ IsExcluded(eng, Path("w.so"))
    /\ \A i \in DOMAIN f.log : f.log[i].node \notin {".git", "g.txt", "w.so", "o", "q.txt"}

(***************************************************************************)
(* The candidate test, with the extension lists a caller may set           *)
(***************************************************************************)
FilterRoots == {"r", "s", "a.txt", "h.txt", "k.bin"}

FilterPatterns == { <<"a","b">> }

\* no list, one extension, two extensions, and an entry with a directory part
FilterExtensionLists ==
    { <<>>,
      << <<".","t","x","t">> >>,
      << <<".","d","a","t">>, <<".","z","i","p">> >>,
      << <<"/","a",".","t","x","t">> >> }

\* SearchEngine.set_file_extensions
SetFilterExtensions == \E x \in FilterExtensionLists : Configure("file_extensions", x)

FilterNext ==
    \/ SetFilterExtensions
    \/ WriteMaxResults
    \/ \E root \in FilterRoots, pattern \in FilterPatterns : SearchBegin(0, root, pattern)
    \/ WalkNext(0)
    \/ FileStep(0)
    \/ FilesEnd(0)
    \/ SearchReturn

FilterSpec == Init /\ [][FilterNext]_vars

\* the events of the log of frame f in which a file met the candidate test
TestedEvents(f) ==
    EventsOf(f, "excluded") \cup EventsOf(f, "filtered") \cup EventsOf(f, "dispatch")

\* C25: a file that meets the candidate test, as the root of the search or in
\* the walk of a directory, is dispatched if and only if _is_excluded does not
\* reject its path and file_extensions is empty or its name ends with one of
\* the entries; a single-file root is dispatched at most once.
C25_DispatchIff ==
    LET f == call[0] IN
    /\ \A i \in TestedEvents(f) :
          LET n == f.log[i].node
          IN f.log[i].ev = "dispatch"
                <=> (~IsExcluded(eng, Path(n)) /\ PassesExtensions(eng, Name(n)))
    /\ f.root \notin Dirs => Cardinality(EventsOf(f, "dispatch")) <= 1

(***************************************************************************)
(* The order of the matches of a plain-text search                         *)
(***************************************************************************)
OrderRoots == {"r", "t", "a.txt"}

\* a literal, an alternative that matches the empty string at a word
\* boundary, and an alternative that matches the empty string anywhere
OrderPatterns ==
    { <<"a","b">>, <<"\\","b","|","a","b">>, <<"a","|">> }

OrderNext ==
    \/ SetRegex
    \/ SetCaseSensitive
    \/ WriteMaxResults
    \/ \E root \in OrderRoots, pattern \in OrderPatterns : SearchBegin(0, root, pattern)
    \/ WalkNext(0)
    \/ FileStep(0)
    \/ FilesEnd(0)
    \/ SearchReturn

OrderSpec == Init /\ [][OrderNext]_vars

\* C26: in the list of a plain-text search the matches of one file are
\* contiguous and ordered by strictly increasing (line_number, match_start),
\* and a match on the line of the match before it starts at or after the end
\* of that match.
C26_OrderedMatches ==
    LET ms == call[0].matches IN
    /\ \A i, k \in DOMAIN ms :
          (i < k /\ ms[i].file_path = ms[k].file_path) =>
              \A j \in i..k : ms[j].file_path = ms[i].file_path
    /\ \A k \in 1..(Len(ms) - 1) :
          ms[k].file_path = ms[k + 1].file_path =>
              /\ \/ ms[k].line_number < ms[k + 1].line_number
                 \/ /\ ms[k].line_number = ms[k + 1].line_number
                    /\ ms[k].match_start < ms[k + 1].match_start
              /\ ms[k].line_number = ms[k + 1].line_number =>
                    ms[k + 1].match_start >= ms[k].match_end

(***************************************************************************)
(* What a call of search() leaves behind: a caller that keeps the list of  *)
(* each call and repeats calls, on local roots and on the network share    *)
(***************************************************************************)
RepeatRoots == {"net", "s"}

RepeatPatterns == { <<"a","b">> }

\* 'return matches' to a caller that keeps the list together with what the
\* call was made with
SearchReturnKeep ==
    /\ call[0].pc = "done"
    /\ call' = [call EXCEPT ![0] =
          [IdleFrame EXCEPT !.prev =
              [valid |-> TRUE, root |-> call[0].root, pattern |-> call[0].pattern,
               config |-> ConfigOf(eng), exclude_patterns |-> eng.exclude_patterns,
               disk |-> disk, matches |-> call[0].matches]]]
    /\ UNCHANGED <<eng, disk, worker, gui, events>>

RepeatNext ==
    \/ WriteMaxResults
    \/ NetworkChange
    \/ \E root \in RepeatRoots, pattern \in RepeatPatterns : SearchBegin(0, root, pattern)
    \/ ProbeEnd(0)
    \/ ShutdownEnd(0)
    \/ WalkNext(0)
    \/ FileStep(0)
    \/ FilesEnd(0)
    \/ SearchReturnKeep

RepeatSpec == Init /\ [][RepeatNext]_vars

\* the call in progress is made with what the call before it was made with
SameCallAgain(f, e, env) ==
    /\ f.prev.valid
    /\ f.prev.root = f.root /\ f.prev.pattern = f.pattern
    /\ f.prev.config = ConfigOf(e) /\ f.prev.exclude_patterns = e.exclude_patterns
    /\ f.prev.disk = env

HexRoots == {"x", "y.dat", "a.txt"}

\* a short text and a text longer than the dump window, both in y.dat
HexPatterns ==
    { <<"a","b">>, <<"a","b">> \o [i \in 1..HexWindow |-> "z"] }

HexNext ==
    \/ SetHexSearch
    \/ SetCaseSensitive
    \/ WriteMaxResults
    \/ \E root \in HexRoots, pattern \in HexPatterns : SearchBegin(0, root, pattern)
    \/ WalkNext(0)
    \/ FileStep(0)
    \/ FilesEnd(0)
    \/ SearchReturn

HexSpec == Init /\ [][HexNext]_vars

\* the text of a dump line for the bytes lo..hi-1 (0-based) of b at offset o
DumpLine(b, o, lo, hi) ==
    <<"O","f","f","s","e","t"," ">> \o HexOf(o, 8) \o <<":", " ">>
        \o HexDump(Slice(b, lo, hi))

\* C28: the dump of a binary-hex match covers the bytes of the file from 16
\* before the start of the match to 16 after its end, clamped to the file,
\* and so contains every byte of the match.
C28_DumpCoversMatch ==
    LET f == call[0] IN
    \A d \in EventsOf(f, "dispatch") :
        f.log[d].x = "binary-hex" =>
            LET b  == Bytes(f.log[d].node)
                ms == MatchesOf(f, d)
            IN \A k \in DOMAIN ms :
                  LET o  == ms[k].line_number
                      ln == ms[k].match_end - ms[k].match_start
                  IN ms[k].line_content
                        = DumpLine(b, o, Max(0, o - HexWindow),
                                   Min(Len(b), o + ln + HexWindow))

(***************************************************************************)
(* The lines of the metadata searches                                      *)
(***************************************************************************)
MetaRoots == {"r", "c.png", "e.db"}

MetaPatterns == { <<"a","b">>, <<"b",".">>, <<"1">> }

MetaNext ==
    \/ SetContextLines
    \/ SetSearchMetadata
    \/ SetSearchFileMetadata
    \/ \E root \in MetaRoots, pattern \in MetaPatterns : SearchBegin(0, root, pattern)
    \/ WalkNext(0)
    \/ FileStep(0)
    \/ FilesEnd(0)
    \/ SearchReturn

MetaSpec == Init /\ [][MetaNext]_vars

\* the map the metadata extractor x builds for node n, as a sequence of pairs
\* in insertion order
ExtractedMap(env, x, n) ==
    IF x = "image-metadata"
    THEN IF ~env.pillow \/ n \in env.unreadable \cup env.corrupt THEN <<>>
         ELSE MetaPairs(n)
    ELSE ExtractFileMetadata(env, n)

\* the dispatches of call 0 to one of the two metadata extractors
MetaDispatches ==
    {d \in EventsOf(call[0], "dispatch") :
        call[0].log[d].x \in {"image-metadata", "file-metadata"}}

\* C29: in the metadata modes pair k of the extracted map is searched as the
\* line 'Key: Value': every match of finditer on it is reported with
\* line_number k, that line as content and no context lines, whatever
\* context_lines is, so a pair without a match still takes its number.
C29_MetadataLines ==
    LET f == call[0] IN
    \A d \in MetaDispatches :
        LET pairs == ExtractedMap(disk, f.log[d].x, f.log[d].node)
            ms    == MatchesOf(f, d)
        IN /\ \A i \in DOMAIN ms :
                 /\ ms[i].line_number \in DOMAIN pairs
                 /\ ms[i].line_content = MetaLine(pairs[ms[i].line_number])
                 /\ ms[i].context_before = <<>>
                 /\ ms[i].context_after = <<>>
                 /\ \E j \in DOMAIN FindIter(f.regex, ms[i].line_content) :
                       /\ FindIter(f.regex, ms[i].line_content)[j].start = ms[i].match_start
                       /\ FindIter(f.regex, ms[i].line_content)[j].end = ms[i].match_end
           /\ \A k \in DOMAIN pairs :
                 Len(FindIter(f.regex, MetaLine(pairs[k])))
                    = Cardinality({i \in DOMAIN ms : ms[i].line_number = k})
           /\ \A i \in 1..(Len(ms) - 1) : ms[i].line_number <= ms[i + 1].line_number

\* a search with context lines found 'b.' only in the fourth pair of c.png,
\* whose first three pairs have no match
C29_Witness ==
    LET f == call[0] IN
    /\ eng.context_lines > 0
    /\ \E d \in MetaDispatches :
          /\ f.log[d].node = "c.png" /\ f.log[d].x = "image-metadata"
          /\ Len(MatchesOf(f, d)) = 1
          /\ MatchesOf(f, d)[1].line_number = 4

(***************************************************************************)
(* The cache of previewed files of the main window                         *)
(***************************************************************************)
\* the cache sizes the preferences dialog is accepted with (its range is
\* 0..500, 0 shown as "Disabled")
CacheSizes == {0, 1, 2}

\* the value of the two engine ceilings and the values of
\* max_preview_file_size_mb that dialog is accepted with
PreviewResultCeilings == {MaxCeiling}

PreviewSearchSizesMB == {50}

PreviewSizesMB == {1, 10}

PreviewFiles == {"a.txt", "h.txt", "c.png"}

\* the extensions show_file_contents_with_matches takes for images
PreviewImageExtensions ==
    { <<".","j","p","g">>, <<".","j","p","e","g">>, <<".","p","n","g">>,
      <<".","t","i","f","f">>, <<".","t","i","f">>, <<".","g","i","f">>,
      <<".","b","m","p">>, <<".","w","e","b","p">> }

\* the argument of show_file_contents_with_matches: no match, or the matches
\* of one file of the result tree
PreviewInputs ==
    {<<>>} \cup {<<SearchMatch(Path(n), 1, <<>>, 0, 0, <<>>, <<>>)>> : n \in PreviewFiles}

\* os.path.getsize of a file at the time of a preview: its size, or one byte
\* more when another program has appended to it since
ObservedSizes(n) == {Len(Bytes(n)), Len(Bytes(n)) + 1}

\* self.file_cache[file_path] = (file_size, lines): an entry of the dict
\* keeps its place when its key is assigned again
CachePut(cache, path, size) ==
    IF \E i \in DOMAIN cache : cache[i].path = path
    THEN [i \in DOMAIN cache |->
            IF cache[i].path = path THEN [path |-> path, size |-> size] ELSE cache[i]]
    ELSE Append(cache, [path |-> path, size |-> size])

\* MainWindow._cache_file: with a full cache the first key is deleted, and
\* next(iter(...)) of an empty dict raises StopIteration
CacheFile(cache, max_cache_size, path, size) ==
    IF Len(cache) >= max_cache_size
    THEN IF cache = <<>>
         THEN [raised |-> TRUE, cache |-> cache]
         ELSE [raised |-> FALSE, cache |-> CachePut(Tail(cache), path, size)]
    ELSE [raised |-> FALSE, cache |-> CachePut(cache, path, size)]

\* MainWindow.show_preferences: the dialog is cancelled, or accepted with the
\* four values of its spin boxes
ShowPreferencesDialog ==
    /\ gui.main = "loop"
    /\ \E accepted \in BOOLEAN, mr \in PreviewResultCeilings,
          mb \in PreviewSearchSizesMB, preview_mb \in PreviewSizesMB,
          cache_size \in CacheSizes :
          IF accepted
          THEN /\ gui' = PreferencesApplied(gui, cache_size, preview_mb)
               /\ eng' = [eng EXCEPT !.max_results = mr,
                                     !.max_search_file_size = mb * 1024 * 1024]
          ELSE UNCHANGED <<gui, eng>>
    /\ UNCHANGED <<disk, call, worker, events>>

\* MainWindow.show_file_contents_with_matches for the selected item of the
\* result tree
ShowFileContents ==
    /\ gui.main = "loop"
    /\ \E matches \in PreviewInputs :
          IF matches = <<>> THEN UNCHANGED gui
          ELSE \E n \in PreviewFiles : \E file_size \in ObservedSizes(n) :
                 /\ Path(n) = matches[1].file_path
                 /\ LET cached == {i \in DOMAIN gui.file_cache :
                                      gui.file_cache[i].path = Path(n)}
                        put    == CacheFile(gui.file_cache, gui.max_cache_size,
                                            Path(n), file_size)
                    IN IF Ext(n) \in PreviewImageExtensions /\ eng.search_metadata
                       THEN gui' = [gui EXCEPT !.preview = "metadata"]
                       ELSE IF file_size > gui.max_file_size
                       THEN gui' = [gui EXCEPT !.preview = "too large"]
                       ELSE IF \E i \in cached : gui.file_cache[i].size = file_size
                       THEN gui' = [gui EXCEPT !.preview = "contents"]
                       ELSE IF n \in disk.unreadable          \* open raises
                       THEN gui' = [gui EXCEPT !.preview = "error"]
                       ELSE IF put.raised
                       THEN gui' = [gui EXCEPT !.preview = "error",
                                               !.cache_raised = TRUE]
                       ELSE gui' = [gui EXCEPT !.preview = "contents",
                                               !.file_cache = put.cache]
    /\ UNCHANGED <<eng, disk, call, worker, events>>

PreviewNext ==
    \/ SetSearchMetadata
    \/ ShowPreferencesDialog
    \/ ShowFileContents

PreviewSpec == Init /\ [][PreviewNext]_vars

\* C30: the cache of previewed files never holds more than max_cache_size
\* entries, for every size the preferences dialog allows, and no call of
\* _cache_file has raised.
C30_CacheWithinLimit ==
    /\ Len(gui.file_cache) <= gui.max_cache_size
    /\ ~gui.cache_raised

====
